---- MODULE Spec2Model ----
(***************************************************************************)
(* The front-end parser of src/src/parser.ts as a state machine.           *)
(*                                                                         *)
(* State: the Parser's program.sources, backlog, seenlog and diagnostics.  *)
(* Operations: parseFile, nextFile, finish.  A file's text is a sequence   *)
(* of tokens; every token is one character wide, so a token index is also  *)
(* a source offset.  A path is a sequence of segments; the source          *)
(* extension, when present, is the last segment ".ts".                     *)
(***************************************************************************)
EXTENDS Integers, Sequences, FiniteSets, TLC

VARIABLES
  sources,      \* program.sources: sequence of Source records
  backlog,      \* Parser.backlog: sequence of normalized paths
  seenlog,      \* Parser.seenlog: set of normalized paths
  diagnostics,  \* program.diagnostics: sequence of diagnostic records
  result,       \* the last call: operation, arguments, outcome
  returned,     \* history: every non-null value nextFile has returned, in order
  enqueued,     \* history: every path pushed onto the backlog, in order
  log,          \* history: one record per top-level iteration of the last parseFile
  nulls,        \* history: the parse routines that returned null in the last parseFile
  checkpoints,  \* history: the uses of the tokenizer's checkpoint in the last parseFile
  rounds,       \* history: the iterations of the loops of the last parseFile
  fed           \* host: the number of statement forms it has given to parseFile so far

vars == <<sources, backlog, seenlog, diagnostics, result, returned, enqueued, log, nulls,
          checkpoints, rounds, fed>>

----------------------------------------------------------------------------
(* Bounds *)

MaxStatements == 2   \* statement forms the host feeds to the parser, over all its files

MaxTypeArguments == 2   \* type arguments of a call in a text

MaxArguments == 2   \* arguments of a call in a text

----------------------------------------------------------------------------
(* Paths *)

Ext == ".ts"

RECURSIVE collapse(_, _)
collapse(segs, acc) ==
  IF segs = <<>> THEN acc
  ELSE LET h == Head(segs)
           t == Tail(segs)
       IN IF h = "." THEN collapse(t, acc)
          ELSE IF h = ".." /\ acc # <<>> /\ acc[Len(acc)] # ".."
               THEN collapse(t, SubSeq(acc, 1, Len(acc) - 1))
               ELSE collapse(t, Append(acc, h))

\* util.normalizePath: "."/".." resolved, the source extension elided
normalizePath(path) ==
  LET noext == IF path # <<>> /\ path[Len(path)] = Ext
               THEN SubSeq(path, 1, Len(path) - 1)
               ELSE path
  IN collapse(noext, <<>>)

dirname(normalizedPath) ==
  IF normalizedPath = <<>> THEN <<>>
  ELSE SubSeq(normalizedPath, 1, Len(normalizedPath) - 1)

\* util.resolvePath: a normalized path taken relative to a normalized origin
resolvePath(normalizedPath, normalizedOrigin) ==
  normalizePath(dirname(normalizedOrigin) \o normalizedPath)

----------------------------------------------------------------------------
(* Tokens and texts *)

Tok(t) == [t |-> t, v |-> <<>>, nl |-> FALSE]
Ident(name) == [t |-> "IDENTIFIER", v |-> <<name>>, nl |-> FALSE]
Str(path) == [t |-> "STRINGLITERAL", v |-> path, nl |-> FALSE]

\* The module paths that the import strings of the texts name
ImportPaths == { <<".", "other">>, <<".", "lib", "..", "b", Ext>> }

\* The raw paths the host passes to parseFile
FilePaths == { <<"a", Ext>>, <<".", "a">>, <<"other", Ext>> }

ImportForm(p) ==
  << Tok("IMPORT"), Tok("OPENBRACE"), Ident("foo"), Tok("CLOSEBRACE"),
     Tok("FROM"), Str(p), Tok("SEMICOLON") >>

\* export { foo as bar } from "<p>";
ExportFromForm(p) ==
  << Tok("EXPORT"), Tok("OPENBRACE"), Ident("foo"), Tok("AS"), Ident("bar"),
     Tok("CLOSEBRACE"), Tok("FROM"), Str(p), Tok("SEMICOLON") >>

ExportForm ==
  << Tok("EXPORT"), Tok("OPENBRACE"), Ident("foo"), Tok("COMMA"), Ident("bar"),
     Tok("CLOSEBRACE"), Tok("SEMICOLON") >>

\* declare { foo; ; }   a statement that parses with a recoverable diagnostic
BlockForm ==
  << Tok("DECLARE"), Tok("OPENBRACE"), Ident("foo"), Tok("SEMICOLON"),
     Tok("SEMICOLON"), Tok("CLOSEBRACE") >>

\* export import bar    a statement whose parse routine returns null
BadForm ==
  << Tok("EXPORT"), Tok("IMPORT"), Ident("bar"), Tok("SEMICOLON") >>

StatementForms ==
  { ImportForm(p) : p \in ImportPaths } \cup
  { ExportFromForm(<<".", "other">>), ExportForm, BlockForm, BadForm }

\* the texts made of exactly n statement forms
RECURSIVE TextsOf(_)
TextsOf(n) ==
  IF n = 0 THEN { <<>> }
  ELSE { t \o f : t \in TextsOf(n - 1), f \in StatementForms }

----------------------------------------------------------------------------
(* Tokenizer.  A tokenizer-and-parser state s holds the tokens, the cursor  *)
(* and the parser fields the parse routines write.                          *)

EndOfFile == Tok("ENDOFFILE")

TokAt(toks, i) == IF i >= 1 /\ i <= Len(toks) THEN toks[i] ELSE EndOfFile

\* tn.peek(): the kind of the next token, the cursor is left alone
peek(s) == TokAt(s.toks, s.pos + 1).t

\* tn.nextTokenOnNewLine after a peek
nextTokenOnNewLine(s) == TokAt(s.toks, s.pos + 1).nl

\* tn.next(): consume one token; at the end of the text the cursor stays
next(s) ==
  [s EXCEPT !.token = peek(s),
            !.tokenPos = s.pos,
            !.pos = IF s.pos < Len(s.toks) THEN s.pos + 1 ELSE s.pos]

\* tn.skip(t): consume the next token iff it is a t
skip(s, t) == IF peek(s) = t THEN next(s) ELSE s

\* tn.mark() / tn.reset(): the single checkpoint; n counts the marks of the call
mark(s) ==
  [s EXCEPT !.marked = [pos |-> s.pos, token |-> s.token, tokenPos |-> s.tokenPos,
                        n |-> s.marked.n + 1]]

reset(s) ==
  [s EXCEPT !.pos = s.marked.pos, !.token = s.marked.token, !.tokenPos = s.marked.tokenPos]

\* tn.readIdentifier() / tn.readString(): the value of the current token
readIdentifier(s) == TokAt(s.toks, s.pos).v
readString(s) == TokAt(s.toks, s.pos).v

\* tn.readInteger() / tn.readFloat() / tn.readRegexp()
readInteger(s) == TokAt(s.toks, s.pos).v
readFloat(s) == TokAt(s.toks, s.pos).v
readRegexp(s) == TokAt(s.toks, s.pos).v

Range(start, end) == [start |-> start, end |-> end]

\* tn.range(): the range of the current token
range(s) == Range(s.tokenPos, s.pos)

\* tn.range(start, end)
rangeFrom(s, start, end) == Range(start, end)

\* tn.range(tn.pos): the empty range at the cursor
rangeAt(s, start) == Range(start, start)

\* Range.join
join(a, b) ==
  Range(IF a.start < b.start THEN a.start ELSE b.start,
        IF a.end > b.end THEN a.end ELSE b.end)

\* DiagnosticEmitter.error: append to the shared store
error(s, code, arg) ==
  [s EXCEPT !.diags = Append(@, [code |-> code, arg |-> arg, category |-> "ERROR"])]

----------------------------------------------------------------------------
(* AST node factory *)

Null == [kind |-> "NULL"]

\* a null string where a path is expected; no path has this segment
NullPath == << "<null>" >>

\* the truthiness of a string | null: null and the empty string are falsy
truthy(p) == p # NullPath /\ p # <<>>

\* the result of a parse routine: the node (or Null) and the state after it
R(node, s) == [node |-> node, s |-> s]

\* the result of a routine that builds a list: ok is FALSE where the code returns null
L(ok, list, s) == [ok |-> ok, list |-> list, s |-> s]

\* history: r as the value of a call of routine made in state before; a null is
\* recorded with the number of diagnostics the call has emitted
returns(routine, before, r) ==
  IF r.node = Null
  THEN R(Null, [r.s EXCEPT !.nulls =
                  Append(@, [routine |-> routine,
                             emitted |-> Len(r.s.diags) - Len(before.diags)])])
  ELSE r

\* the same for a routine that returns a list or null
returnsList(routine, before, m) ==
  IF ~m.ok
  THEN L(FALSE, <<>>, [m.s EXCEPT !.nulls =
                         Append(@, [routine |-> routine,
                                    emitted |-> Len(m.s.diags) - Len(before.diags)])])
  ELSE m

\* history: an iteration of the kind loop of routine has come to its end in s
round(s, routine, kind, consumed, null, last) ==
  [s EXCEPT !.rounds = Append(@, [routine |-> routine, kind |-> kind, consumed |-> consumed,
                                  null |-> null, last |-> last])]

\* history: one iteration of a loop, from the state before at its head to the
\* value r of its body.  An iteration that neither consumes a token nor gives
\* null would be repeated for ever: the model ends the parse there with null
iterated(routine, kind, before, r) ==
  R(IF r.s.pos > before.pos THEN r.node ELSE Null,
    round(r.s, routine, kind, r.s.pos > before.pos, r.node = Null, FALSE))

\* history: the head of an iteration that takes a token itself, as in
\* while (tn.skip(t)); s is the state past the head
entered(routine, kind, before, s) ==
  round(s, routine, kind, s.pos > before.pos, FALSE, FALSE)

createIdentifier(name, rng) == [kind |-> "IDENTIFIER", name |-> name, range |-> rng]

createStringLiteral(value, rng) == [kind |-> "STRING", value |-> value, range |-> rng]

createModifier(modifierKind, rng) ==
  [kind |-> "MODIFIER", modifierKind |-> modifierKind, range |-> rng]

createImportDeclaration(identifier, asIdentifier, rng) ==
  [kind |-> "IMPORTDECLARATION", identifier |-> identifier,
   asIdentifier |-> asIdentifier, range |-> rng]

createExportMember(identifier, asIdentifier, rng) ==
  [kind |-> "EXPORTMEMBER", identifier |-> identifier,
   asIdentifier |-> asIdentifier, range |-> rng]

\* Statement.createImport: the path is resolved against the Source of its range
createImport(declarations, path, rng, origin) ==
  [kind |-> "IMPORT", declarations |-> declarations, path |-> path,
   normalizedPath |-> resolvePath(normalizePath(path.value), origin),
   range |-> rng, parent |-> Null]

\* Statement.createExport: normalizedPath is null when there is no path
createExport(modifiers, members, path, rng, origin) ==
  [kind |-> "EXPORT", modifiers |-> modifiers, members |-> members, path |-> path,
   normalizedPath |-> IF path = Null THEN NullPath
                      ELSE resolvePath(normalizePath(path.value), origin),
   range |-> rng, parent |-> Null]

createExportImport(identifier, asIdentifier, rng) ==
  [kind |-> "EXPORTIMPORT", identifier |-> identifier,
   asIdentifier |-> asIdentifier, range |-> rng, parent |-> Null]

createBlock(statements, rng) ==
  [kind |-> "BLOCK", statements |-> statements, range |-> rng, parent |-> Null]

createEmpty(rng) == [kind |-> "EMPTY", range |-> rng, parent |-> Null]

createExpression(expr) ==
  [kind |-> "EXPRESSION", expression |-> expr, range |-> expr.range, parent |-> Null]

createBinary(operator, left, right, rng) ==
  [kind |-> "BINARY", operator |-> operator, left |-> left, right |-> right, range |-> rng]

createPropertyAccess(expression, property, rng) ==
  [kind |-> "PROPERTYACCESS", expression |-> expression, property |-> property, range |-> rng]

createNull(rng) == [kind |-> "NULLLITERAL", range |-> rng]

createTrue(rng) == [kind |-> "TRUE", range |-> rng]

createFalse(rng) == [kind |-> "FALSE", range |-> rng]

createThis(rng) == [kind |-> "THIS", range |-> rng]

createIntegerLiteral(value, rng) == [kind |-> "INTEGER", value |-> value, range |-> rng]

createFloatLiteral(value, rng) == [kind |-> "FLOAT", value |-> value, range |-> rng]

createRegexpLiteral(value, rng) == [kind |-> "REGEXP", value |-> value, range |-> rng]

createNew(expression, typeArguments, args, rng) ==
  [kind |-> "NEW", expression |-> expression, typeArguments |-> typeArguments,
   arguments |-> args, range |-> rng]

createCall(expression, typeArguments, args, rng) ==
  [kind |-> "CALL", expression |-> expression, typeArguments |-> typeArguments,
   arguments |-> args, range |-> rng]

createUnaryPrefix(operator, expression, rng) ==
  [kind |-> "UNARYPREFIX", operator |-> operator, expression |-> expression, range |-> rng]

createUnaryPostfix(operator, expression, rng) ==
  [kind |-> "UNARYPOSTFIX", operator |-> operator, expression |-> expression, range |-> rng]

createParenthesized(expression, rng) ==
  [kind |-> "PARENTHESIZED", expression |-> expression, range |-> rng]

\* an omitted element is Null
createArrayLiteral(elementExpressions, rng) ==
  [kind |-> "ARRAYLITERAL", elementExpressions |-> elementExpressions, range |-> rng]

createAssertion(assertionKind, expression, toType, rng) ==
  [kind |-> "ASSERTION", assertionKind |-> assertionKind, expression |-> expression,
   toType |-> toType, range |-> rng]

createElementAccess(expression, element, rng) ==
  [kind |-> "ELEMENTACCESS", expression |-> expression, elementExpression |-> element,
   range |-> rng]

createSelect(condition, ifThen, ifElse, rng) ==
  [kind |-> "SELECT", condition |-> condition, ifThen |-> ifThen, ifElse |-> ifElse,
   range |-> rng]

\* TypeNode.create
createType(identifier, parameters, nullable, rng) ==
  [kind |-> "TYPE", identifier |-> identifier, parameters |-> parameters,
   nullable |-> nullable, range |-> rng]

createDecorator(expression, args, rng) ==
  [kind |-> "DECORATOR", expression |-> expression, arguments |-> args, range |-> rng]

createReturn(expression, rng) ==
  [kind |-> "RETURN", expression |-> expression, range |-> rng, parent |-> Null]

createBreak(label, rng) ==
  [kind |-> "BREAK", label |-> label, range |-> rng, parent |-> Null]

createContinue(label, rng) ==
  [kind |-> "CONTINUE", label |-> label, range |-> rng, parent |-> Null]

createVariableDeclaration(identifier, type, initializer, rng) ==
  [kind |-> "VARIABLEDECLARATION", identifier |-> identifier, type |-> type,
   initializer |-> initializer, range |-> rng]

createVariable(modifiers, declarations, rng) ==
  [kind |-> "VARIABLE", modifiers |-> modifiers, declarations |-> declarations,
   range |-> rng, parent |-> Null]

createTypeParameter(identifier, extendsType, rng) ==
  [kind |-> "TYPEPARAMETER", identifier |-> identifier, extendsType |-> extendsType,
   range |-> rng]

createParameter(identifier, type, initializer, multiple, rng) ==
  [kind |-> "PARAMETER", identifier |-> identifier, type |-> type,
   initializer |-> initializer, multiple |-> multiple, range |-> rng]

\* statements is NoBody where the code passes null (a declaration without a body)
createFunction(modifiers, identifier, typeParameters, parameters, returnType, statements, decorators, rng) ==
  [kind |-> "FUNCTION", modifiers |-> modifiers, identifier |-> identifier,
   typeParameters |-> typeParameters, parameters |-> parameters,
   returnType |-> returnType, statements |-> statements, decorators |-> decorators,
   range |-> rng, parent |-> Null]

createEnumValue(identifier, value, rng) ==
  [kind |-> "ENUMVALUE", identifier |-> identifier, value |-> value, range |-> rng]

createEnum(modifiers, identifier, members, rng) ==
  [kind |-> "ENUM", modifiers |-> modifiers, identifier |-> identifier,
   members |-> members, range |-> rng, parent |-> Null]

createField(modifiers, identifier, type, initializer, decorators, rng) ==
  [kind |-> "FIELD", modifiers |-> modifiers, identifier |-> identifier,
   type |-> type, initializer |-> initializer, decorators |-> decorators,
   range |-> rng]

\* statements is NoBody where the code passes null (a method without a body)
createMethod(modifiers, identifier, typeParameters, parameters, returnType, statements, decorators, rng) ==
  [kind |-> "METHOD", modifiers |-> modifiers, identifier |-> identifier,
   typeParameters |-> typeParameters, parameters |-> parameters,
   returnType |-> returnType, statements |-> statements, decorators |-> decorators,
   range |-> rng]

createClass(modifiers, identifier, typeParameters, extendsType, implementsTypes, members, decorators, rng) ==
  [kind |-> "CLASS", modifiers |-> modifiers, identifier |-> identifier,
   typeParameters |-> typeParameters, extendsType |-> extendsType,
   implementsTypes |-> implementsTypes, members |-> members,
   decorators |-> decorators, range |-> rng, parent |-> Null]

createDo(statement, condition, rng) ==
  [kind |-> "DO", statement |-> statement, condition |-> condition, range |-> rng,
   parent |-> Null]

createFor(initializer, condition, incrementor, statement, rng) ==
  [kind |-> "FOR", initializer |-> initializer, condition |-> condition,
   incrementor |-> incrementor, statement |-> statement, range |-> rng,
   parent |-> Null]

createIf(condition, statement, elseStatement, rng) ==
  [kind |-> "IF", condition |-> condition, statement |-> statement,
   elseStatement |-> elseStatement, range |-> rng,
   parent |-> Null]

createSwitchCase(label, statements, rng) ==
  [kind |-> "SWITCHCASE", label |-> label, statements |-> statements, range |-> rng]

createSwitch(expression, cases, rng) ==
  [kind |-> "SWITCH", expression |-> expression, cases |-> cases, range |-> rng,
   parent |-> Null]

createThrow(expression, rng) == [kind |-> "THROW", expression |-> expression, range |-> rng,
   parent |-> Null]

createTry(statements, catchVariable, catchStatements, finallyStatements, rng) ==
  [kind |-> "TRY", statements |-> statements, catchVariable |-> catchVariable,
   catchStatements |-> catchStatements, finallyStatements |-> finallyStatements,
   range |-> rng,
   parent |-> Null]

createWhile(condition, statement, rng) ==
  [kind |-> "WHILE", condition |-> condition, statement |-> statement, range |-> rng,
   parent |-> Null]

\* the null Statement[] of a function without a body; no statement list has this element
NoBody == << Null >>

\* new Source(path, text, isEntry)
createSource(path, text, isEntry) ==
  [path |-> path, normalizedPath |-> normalizePath(path), text |-> text,
   isEntry |-> isEntry, statements |-> <<>>]

----------------------------------------------------------------------------
(* Modifiers *)

addModifier(modifier, modifiers) == Append(modifiers, modifier)

hasModifier(modifierKind, modifiers) ==
  \E i \in 1..Len(modifiers) : modifiers[i].modifierKind = modifierKind

getModifier(modifierKind, modifiers) ==
  modifiers[CHOOSE i \in 1..Len(modifiers) :
              /\ modifiers[i].modifierKind = modifierKind
              /\ \A j \in 1..(i - 1) : modifiers[j].modifierKind # modifierKind]

----------------------------------------------------------------------------
(* Work-list writes of the parse routines *)

\* the push without the seenlog.add
enqueue_NoSeenlogAdd(s, p) ==
  [s EXCEPT !.backlog = Append(@, p),
            !.pushed = Append(@, p)]

\* this.backlog.push(p); this.seenlog.add(p)
enqueue(s, p) ==
  [s EXCEPT !.backlog = Append(@, p),
            !.seenlog = @ \cup {p},
            !.pushed = Append(@, p)]

----------------------------------------------------------------------------
(* Import and export statements *)

\* Identifier ('as' Identifier)?
parseImportDeclaration(s) ==
  returns("parseImportDeclaration", s,
    IF peek(s) = "IDENTIFIER"
    THEN LET s1 == next(s)
             identifier == createIdentifier(readIdentifier(s1), range(s1))
         IN IF peek(s1) = "AS"
            THEN LET s2 == next(s1)
                 IN IF peek(s2) = "IDENTIFIER"
                    THEN LET s3 == next(s2)
                             asIdentifier == createIdentifier(readIdentifier(s3), range(s3))
                         IN R(createImportDeclaration(identifier, asIdentifier,
                                                      join(identifier.range, asIdentifier.range)), s3)
                    ELSE R(Null, error(s2, "Identifier_expected", ""))
            ELSE R(createImportDeclaration(identifier, Null, identifier.range), s1)
    ELSE R(Null, error(s, "Identifier_expected", "")))

\* do { member } while (tn.skip(COMMA)); node is the member list, or Null
RECURSIVE parseImportDeclarations(_, _)

\* the loop body once parseImportDeclaration has returned r
importDeclarationParsed(r, members) ==
  IF r.node = Null THEN L(FALSE, <<>>, r.s)
  ELSE IF peek(r.s) = "COMMA"
       THEN parseImportDeclarations(next(r.s), Append(members, r.node))
       ELSE L(TRUE, Append(members, r.node), r.s)

parseImportDeclarations(s, members) ==
  importDeclarationParsed(iterated("parseImport", "member", s, parseImportDeclaration(s)),
                          members)

\* the push without the seenlog.has test
parseImportTail_AlwaysPush(s, members, startRange) ==
  IF peek(s) = "FROM"
  THEN LET s1 == next(s)
       IN IF peek(s1) = "STRINGLITERAL"
          THEN LET s2 == next(s1)
                   path == createStringLiteral(readString(s2), range(s2))
                   ret == createImport(members, path, join(startRange, range(s2)), s2.origin)
               IN R(ret, skip(enqueue(s2, ret.normalizedPath), "SEMICOLON"))
          ELSE R(Null, error(s1, "String_literal_expected", ""))
  ELSE R(Null, error(s, "_0_expected", "from"))

\* if (!seenlog.has(ret.normalizedPath)) { push; add }  tn.skip(SEMICOLON); return ret
importCreated(ret, s) ==
  IF ret.normalizedPath \notin s.seenlog
  THEN R(ret, skip(enqueue(s, ret.normalizedPath), "SEMICOLON"))
  ELSE R(ret, skip(s, "SEMICOLON"))

\* after the member list of parseImport: 'from' StringLiteral ';'?
parseImportTail(s, members, startRange) ==
  IF peek(s) = "FROM"
  THEN LET s1 == next(s)
       IN IF peek(s1) = "STRINGLITERAL"
          THEN LET s2 == next(s1)
                   path == createStringLiteral(readString(s2), range(s2))
               IN importCreated(createImport(members, path, join(startRange, range(s2)),
                                             s2.origin), s2)
          ELSE R(Null, error(s1, "String_literal_expected", ""))
  ELSE R(Null, error(s, "_0_expected", "from"))

\* parseImport once its member loop has ended with m: '}' and the tail
importMembersParsed(m, startRange) ==
  IF ~m.ok THEN R(Null, m.s)
  ELSE IF peek(m.s) = "CLOSEBRACE"
       THEN parseImportTail(next(m.s), m.list, startRange)
       ELSE R(Null, error(m.s, "_0_expected", "}"))

\* at 'import': '{' (ImportMember (',' ImportMember)*)? '}' 'from' StringLiteral ';'?
parseImport(s) ==
  returns("parseImport", s,
    LET startRange == range(s)
    IN IF peek(s) = "OPENBRACE"
       THEN LET s1 == next(s)
            IN IF peek(s1) = "CLOSEBRACE"
               THEN parseImportTail(next(s1), <<>>, startRange)
               ELSE importMembersParsed(parseImportDeclarations(s1, <<>>), startRange)
       ELSE R(Null, error(s, "_0_expected", "{")))

\* Identifier ('as' Identifier)?
parseExportMember(s) ==
  returns("parseExportMember", s,
    IF peek(s) = "IDENTIFIER"
    THEN LET s1 == next(s)
             identifier == createIdentifier(readIdentifier(s1), range(s1))
         IN IF peek(s1) = "AS"
            THEN LET s2 == next(s1)
                 IN IF peek(s2) = "IDENTIFIER"
                    THEN LET s3 == next(s2)
                             asIdentifier == createIdentifier(readIdentifier(s3), range(s3))
                         IN R(createExportMember(identifier, asIdentifier,
                                                 join(identifier.range, asIdentifier.range)), s3)
                    ELSE R(Null, error(s2, "Identifier_expected", ""))
            ELSE R(createExportMember(identifier, Null, identifier.range), s1)
    ELSE R(Null, error(s, "Identifier_expected", "")))

RECURSIVE parseExportMembers(_, _)

\* the loop body once parseExportMember has returned r
exportMemberParsed(r, members) ==
  IF r.node = Null THEN L(FALSE, <<>>, r.s)
  ELSE IF peek(r.s) = "COMMA"
       THEN parseExportMembers(next(r.s), Append(members, r.node))
       ELSE L(TRUE, Append(members, r.node), r.s)

\* do { member } while (tn.skip(COMMA))
parseExportMembers(s, members) ==
  exportMemberParsed(iterated("parseExport", "member", s, parseExportMember(s)), members)

\* the optional path of parseExport: 'from' StringLiteral, FAIL where the code returns null
parseExportPath(s) ==
  IF peek(s) = "FROM"
  THEN LET s1 == next(s)
       IN IF peek(s1) = "STRINGLITERAL"
          THEN LET s2 == next(s1)
               IN R(createStringLiteral(readString(s2), range(s2)), s2)
          ELSE R([kind |-> "FAIL"], error(s1, "String_literal_expected", ""))
  ELSE R(Null, s)

\* the push with the seenlog.has test the wrong way round
parseExportTail_PushSeen(s, modifiers, members, startRange) ==
  LET p == parseExportPath(s)
  IN IF p.node.kind = "FAIL" THEN R(Null, p.s)
     ELSE LET ret == createExport(modifiers, members, p.node,
                                  join(startRange, range(p.s)), p.s.origin)
              s3 == IF truthy(ret.normalizedPath) /\ ret.normalizedPath \in p.s.seenlog
                    THEN enqueue(p.s, ret.normalizedPath)
                    ELSE p.s
          IN R(ret, skip(s3, "SEMICOLON"))

\* if (ret.normalizedPath && !seenlog.has(ret.normalizedPath)) { push; add }
\* tn.skip(SEMICOLON); return ret
exportCreated(ret, s) ==
  IF truthy(ret.normalizedPath) /\ ret.normalizedPath \notin s.seenlog
  THEN R(ret, skip(enqueue(s, ret.normalizedPath), "SEMICOLON"))
  ELSE R(ret, skip(s, "SEMICOLON"))

\* parseExport once the optional path p has been read: createExport and the rest
exportPathParsed(p, modifiers, members, startRange) ==
  IF p.node.kind = "FAIL" THEN R(Null, p.s)
  ELSE exportCreated(createExport(modifiers, members, p.node,
                                  join(startRange, range(p.s)), p.s.origin), p.s)

\* after the member list of parseExport: ('from' StringLiteral)? ';'?
parseExportTail(s, modifiers, members, startRange) ==
  exportPathParsed(parseExportPath(s), modifiers, members, startRange)

\* parseExport once its member loop has ended with m: '}' and the tail
exportMembersParsed(m, modifiers, startRange) ==
  IF ~m.ok THEN R(Null, m.s)
  ELSE IF peek(m.s) = "CLOSEBRACE"
       THEN parseExportTail(next(m.s), modifiers, m.list, startRange)
       ELSE R(Null, error(m.s, "_0_expected", "}"))

\* at 'export': '{' ExportMember (',' ExportMember)* }' ('from' StringLiteral)? ';'?
parseExport(s, modifiers) ==
  returns("parseExport", s,
    LET startRange == IF Len(modifiers) > 0 THEN modifiers[1].range ELSE range(s)
    IN IF peek(s) = "OPENBRACE"
       THEN LET s1 == next(s)
            IN IF peek(s1) = "CLOSEBRACE"
               THEN parseExportTail(next(s1), modifiers, <<>>, startRange)
               ELSE exportMembersParsed(parseExportMembers(s1, <<>>), modifiers, startRange)
       ELSE R(Null, error(s, "_0_expected", "{")))

\* at 'export' 'import': Identifier ('=' Identifier)? ';'?
parseExportImport(s, startRange) ==
  returns("parseExportImport", s,
    IF peek(s) = "IDENTIFIER"
    THEN LET s1 == next(s)
             asIdentifier == createIdentifier(readIdentifier(s1), range(s1))
         IN IF peek(s1) = "EQUALS"
            THEN LET s2 == next(s1)
                 IN IF peek(s2) = "IDENTIFIER"
                    THEN LET s3 == next(s2)
                             identifier == createIdentifier(readIdentifier(s3), range(s3))
                             ret == createExportImport(identifier, asIdentifier,
                                                       join(startRange, range(s3)))
                         IN R(ret, skip(s3, "SEMICOLON"))
                    ELSE R(Null, error(s2, "Identifier_expected", ""))
            ELSE R(Null, error(s1, "_0_expected", "="))
    ELSE R(Null, error(s, "Identifier_expected", "")))

----------------------------------------------------------------------------
(* Operator precedence *)

Precedence ==
  [COMMA |-> 0, SPREAD |-> 1, YIELD |-> 2, ASSIGNMENT |-> 3, CONDITIONAL |-> 4,
   LOGICAL_OR |-> 5, LOGICAL_AND |-> 6, BITWISE_OR |-> 7, BITWISE_XOR |-> 8,
   BITWISE_AND |-> 9, EQUALITY |-> 10, RELATIONAL |-> 11, SHIFT |-> 12,
   ADDITIVE |-> 13, MULTIPLICATIVE |-> 14, EXPONENTIATED |-> 15,
   UNARY_PREFIX |-> 16, UNARY_POSTFIX |-> 17, CALL |-> 18, MEMBERACCESS |-> 19,
   GROUPING |-> 20, INVALID |-> -1]

AssignmentTokens ==
  { "EQUALS", "PLUS_EQUALS", "MINUS_EQUALS", "ASTERISK_ASTERISK_EQUALS",
    "ASTERISK_EQUALS", "SLASH_EQUALS", "PERCENT_EQUALS", "LESSTHAN_LESSTHAN_EQUALS",
    "GREATERTHAN_GREATERTHAN_EQUALS", "GREATERTHAN_GREATERTHAN_GREATERTHAN_EQUALS",
    "AMPERSAND_EQUALS", "CARET_EQUALS", "BAR_EQUALS" }

\* non-prefix
determinePrecedence(kind) ==
  CASE kind = "COMMA" -> Precedence.COMMA
    [] kind \in AssignmentTokens -> Precedence.ASSIGNMENT
    [] kind = "QUESTION" -> Precedence.CONDITIONAL
    [] kind = "BAR_BAR" -> Precedence.LOGICAL_OR
    [] kind = "AMPERSAND_AMPERSAND" -> Precedence.LOGICAL_AND
    [] kind = "BAR" -> Precedence.BITWISE_OR
    [] kind = "CARET" -> Precedence.BITWISE_XOR
    [] kind = "AMPERSAND" -> Precedence.BITWISE_AND
    [] kind \in { "EQUALS_EQUALS", "EXCLAMATION_EQUALS", "EQUALS_EQUALS_EQUALS",
                  "EXCLAMATION_EQUALS_EQUALS" } -> Precedence.EQUALITY
    [] kind \in { "AS", "IN", "INSTANCEOF", "LESSTHAN", "GREATERTHAN",
                  "LESSTHAN_EQUALS", "GREATERTHAN_EQUALS" } -> Precedence.RELATIONAL
    [] kind \in { "LESSTHAN_LESSTHAN", "GREATERTHAN_GREATERTHAN",
                  "GREATERTHAN_GREATERTHAN_GREATERTHAN" } -> Precedence.SHIFT
    [] kind \in { "PLUS", "MINUS" } -> Precedence.ADDITIVE
    [] kind \in { "ASTERISK", "SLASH", "PERCENT" } -> Precedence.MULTIPLICATIVE
    [] kind = "ASTERISK_ASTERISK" -> Precedence.EXPONENTIATED
    [] kind \in { "PLUS_PLUS", "MINUS_MINUS" } -> Precedence.UNARY_POSTFIX
    [] kind \in { "DOT", "NEW" } -> Precedence.MEMBERACCESS
    [] OTHER -> Precedence.INVALID

\* non-prefix
isRightAssociative(kind) ==
  kind \in AssignmentTokens \cup { "QUESTION", "ASTERISK_ASTERISK" }

\* prefix
determinePrecedencePrefix(kind) ==
  CASE kind = "DOT_DOT_DOT" -> Precedence.SPREAD
    [] kind = "YIELD" -> Precedence.YIELD
    [] kind \in { "EXCLAMATION", "TILDE", "PLUS", "MINUS", "PLUS_PLUS", "MINUS_MINUS",
                  "TYPEOF", "VOID", "DELETE" } -> Precedence.UNARY_PREFIX
    [] kind = "NEW" -> Precedence.MEMBERACCESS
    [] OTHER -> Precedence.INVALID


\* history: tn.reset() in state s, by a routine that made its tn.mark() at the
\* offset own
restored(routine, own, s) ==
  [reset(s) EXCEPT !.checkpoints =
     Append(@, [routine |-> routine, reset |-> TRUE,
                clobbered |-> s.marked.pos # own,
                moved |-> s.marked.pos # own,
                emitted |-> 0])]

\* history: m as the value of a call of tryParseTypeArgumentsBeforeArguments made
\* in state before; a null is recorded with what the call has left behind: the
\* mark in the checkpoint, the tokenizer, the diagnostics
attempted(before, m) ==
  IF m.ok THEN m
  ELSE L(FALSE, <<>>,
         [m.s EXCEPT !.checkpoints =
            Append(@, [routine |-> "tryParseTypeArgumentsBeforeArguments",
                       reset |-> peek(before) = "LESSTHAN",
                       clobbered |-> m.s.marked.n # before.marked.n + 1,
                       moved |-> <<m.s.pos, m.s.token, m.s.tokenPos>> #
                                 <<before.pos, before.token, before.tokenPos>>,
                       emitted |-> Len(m.s.diags) - Len(before.diags)])])
----------------------------------------------------------------------------
(* Types *)

\* this.parseType(tn), this.parseExpression(tn), ...: a call of one of the
\* mutually recursive routines of the Parser, by name
RECURSIVE call(_, _)

\* do { parseType } while (tn.skip(COMMA))
RECURSIVE typeList(_, _)

\* the loop body once parseType has returned r
typeListParsed(r, list) ==
  IF r.node = Null THEN L(FALSE, <<>>, r.s)
  ELSE IF peek(r.s) = "COMMA"
       THEN typeList(next(r.s), Append(list, r.node))
       ELSE L(TRUE, Append(list, r.node), r.s)

typeList(s, list) ==
  typeListParsed(iterated("parseType", "type", s, call("parseType", <<s, TRUE>>)), list)

\* Array<type>, for one '[]' after type
arrayType(type, nullable, bracketRange, rng) ==
  createType(createIdentifier(<<"Array">>, bracketRange), <<type>>, nullable, rng)

\* ... [][]: while (tn.skip(OPENBRACKET)) { ']' ('|' 'null')? }
RECURSIVE typeBrackets(_, _, _)
typeBrackets(s, type, startPos) ==
  IF peek(s) # "OPENBRACKET" THEN R(type, s)
  ELSE LET s1 == entered("parseType", "bracket", s, next(s))
           s2 == next(s1)
           s3 == next(s2)
           s4 == next(s3)
           bracketRange == rangeFrom(s2, s1.tokenPos, s2.pos)
       IN IF peek(s1) # "CLOSEBRACKET"
          THEN R(Null, error(s1, "_0_expected", "]"))
          ELSE IF peek(s2) # "BAR"
               THEN typeBrackets(s2, arrayType(type, FALSE, bracketRange,
                                               rangeFrom(s2, startPos, s2.pos)), startPos)
               ELSE IF peek(s3) # "NULL"
                    THEN R(Null, error(s3, "_0_expected", "null"))
                    ELSE R(arrayType(type, TRUE, bracketRange,
                                     rangeFrom(s4, startPos, s4.pos)), s4)

\* ( ... ) once the inner type r has been parsed; the message names "}"
innerTypeParsed(r, startPos) ==
  IF r.node = Null THEN R(Null, r.s)
  ELSE IF peek(r.s) # "CLOSEPAREN"
       THEN R(Null, error(r.s, "_0_expected", "}"))
       ELSE typeBrackets(next(r.s),
                         [r.node EXCEPT !.range = Range(startPos, next(r.s).pos)],
                         startPos)

\* Name<...> once the parameters are known: ('|' 'null')?, then the brackets
namedTypeTail(s, identifier, parameters, startPos) ==
  LET s1 == next(s)
      s2 == next(s1)
  IN IF peek(s) # "BAR"
     THEN typeBrackets(s, createType(identifier, parameters, FALSE,
                                     rangeFrom(s, startPos, s.pos)), startPos)
     ELSE IF peek(s1) # "NULL"
          THEN R(Null, error(s1, "_0_expected", "null"))
          ELSE typeBrackets(s2, createType(identifier, parameters, TRUE,
                                           rangeFrom(s2, startPos, s2.pos)), startPos)

\* Name< once the parameter loop has ended with m
typeParametersParsed(m, identifier, startPos) ==
  IF ~m.ok THEN R(Null, m.s)
  ELSE IF peek(m.s) # "GREATERTHAN"
       THEN R(Null, error(m.s, "_0_expected", ">"))
       ELSE namedTypeTail(next(m.s), identifier, m.list, startPos)

\* a type that is one keyword or literal token, named name
simpleType(s, name, startPos) ==
  createType(createIdentifier(<<name>>, range(s)), <<>>, FALSE, rangeFrom(s, startPos, s.pos))

parseTypeAt(s1, acceptParenthesized, startPos) ==
  CASE s1.token = "VOID" -> R(simpleType(s1, "void", startPos), s1)
    [] acceptParenthesized /\ s1.token = "OPENPAREN" ->
         innerTypeParsed(call("parseType", <<s1, FALSE>>), startPos)
    [] s1.token = "THIS" ->
         typeBrackets(s1, createType(createThis(range(s1)), <<>>, FALSE,
                                     rangeFrom(s1, startPos, s1.pos)), startPos)
    [] s1.token \in { "TRUE", "FALSE" } ->
         typeBrackets(s1, simpleType(s1, "bool", startPos), startPos)
    [] s1.token = "STRINGLITERAL" ->
         typeBrackets(s1, simpleType(s1, "string", startPos), startPos)
    [] s1.token = "IDENTIFIER" ->
         IF peek(s1) = "LESSTHAN"
         THEN typeParametersParsed(typeList(next(s1), <<>>),
                                   createIdentifier(readIdentifier(s1), range(s1)), startPos)
         ELSE namedTypeTail(s1, createIdentifier(readIdentifier(s1), range(s1)),
                            <<>>, startPos)
    [] OTHER -> R(Null, error(s1, "Identifier_expected", ""))

\* a parseType that sets the checkpoint before it reads its first token
parseType_Marking(s, acceptParenthesized) ==
  returns("parseType", s,
          parseTypeAt(next(mark(s)), acceptParenthesized, next(s).tokenPos))

\* not TypeScript-compatible
parseType(s, acceptParenthesized) ==
  returns("parseType", s, parseTypeAt(next(s), acceptParenthesized, next(s).tokenPos))

----------------------------------------------------------------------------
(* Expressions: prefix, call, precedence climbing *)

\* do { parseExpression(COMMA + 1) } while (tn.skip(COMMA))
RECURSIVE expressionList(_, _)

\* the loop body once parseExpression has returned r
listExpressionParsed(r, list) ==
  IF r.node = Null THEN L(FALSE, <<>>, r.s)
  ELSE IF peek(r.s) = "COMMA"
       THEN expressionList(next(r.s), Append(list, r.node))
       ELSE L(TRUE, Append(list, r.node), r.s)

expressionList(s, list) ==
  listExpressionParsed(iterated("parseArguments", "argument", s,
                                call("parseExpression", <<s, Precedence.COMMA + 1>>)),
                       list)

\* an end of an argument list that says nothing of a missing ')'
argumentsClosed_Silent(m) ==
  IF ~m.ok THEN L(FALSE, <<>>, m.s)
  ELSE IF peek(m.s) = "CLOSEPAREN"
       THEN L(TRUE, m.list, next(m.s))
       ELSE L(FALSE, <<>>, m.s)

\* the end of an argument list whose expressions are m
argumentsClosed(m) ==
  IF ~m.ok THEN L(FALSE, <<>>, m.s)
  ELSE IF peek(m.s) = "CLOSEPAREN"
       THEN L(TRUE, m.list, next(m.s))
       ELSE L(FALSE, <<>>, error(m.s, "_0_expected", ")"))

\* at '(': (Expression (',' Expression)*)? ')'
parseArguments(s) ==
  returnsList("parseArguments", s,
          IF peek(s) = "CLOSEPAREN" THEN L(TRUE, <<>>, next(s))
          ELSE argumentsClosed(expressionList(s, <<>>)))

\* new operand ( ... once the arguments m are known: ')'
newArgumentsParsed(m, operand, startPos) ==
  IF ~m.ok THEN R(Null, m.s)
  ELSE IF peek(m.s) = "CLOSEPAREN"
       THEN R(createNew(operand, <<>>, m.list, rangeFrom(m.s, startPos, next(m.s).pos)),
              next(m.s))
       ELSE R(Null, error(m.s, "_0_expected", ")"))

\* NewExpression: the operand of new has been parsed up to state s
newOperandParsed(s, operand, startPos) ==
  IF operand.kind \in { "IDENTIFIER", "PROPERTYACCESS" }
  THEN IF peek(s) = "OPENPAREN"
       THEN IF peek(next(s)) # "CLOSEPAREN"
            THEN newArgumentsParsed(expressionList(next(s), <<>>), operand, startPos)
            ELSE newArgumentsParsed(L(TRUE, <<>>, next(s)), operand, startPos)
       ELSE R(createNew(operand, <<>>, <<>>, rangeFrom(s, startPos, s.pos)), s)
  ELSE R(Null, error(s, "Identifier_expected", ""))

IncrementOperands == { "IDENTIFIER", "ELEMENTACCESS", "PROPERTYACCESS" }

\* a prefix operator token once its operand r has been parsed
prefixOperandParsed(r, token, startPos) ==
  IF r.node = Null THEN R(Null, r.s)
  ELSE IF token = "NEW" THEN newOperandParsed(r.s, r.node, startPos)
  ELSE R(createUnaryPrefix(token, r.node, rangeFrom(r.s, startPos, r.s.pos)),
         IF token \in { "PLUS_PLUS", "MINUS_MINUS" } /\ r.node.kind \notin IncrementOperands
         THEN error(r.s, "The_operand_of_an_increment_or_decrement_operator_must_be_a_variable_or_a_property_access", "")
         ELSE r.s)

\* ParenthesizedExpression once the inner expression r has been parsed
parenthesizedParsed(r, startPos) ==
  IF r.node = Null THEN R(Null, r.s)
  ELSE IF peek(r.s) = "CLOSEPAREN"
       THEN R(createParenthesized(r.node, rangeFrom(r.s, startPos, next(r.s).pos)),
              next(r.s))
       ELSE R(Null, error(r.s, "_0_expected", ")"))

\* do { element or omitted } while (tn.skip(COMMA))
RECURSIVE arrayElements(_, _)

\* elementExpressions.push(expr) has run
arrayElementPushed(s, list) ==
  IF peek(s) = "COMMA" THEN arrayElements(next(s), list) ELSE L(TRUE, list, s)

arrayElementParsed(r, list) ==
  IF r.node = Null THEN L(FALSE, <<>>, r.s)
  ELSE arrayElementPushed(r.s, Append(list, r.node))

arrayElements(s, list) ==
  IF peek(s) \in { "COMMA", "CLOSEBRACKET" }
  THEN arrayElementPushed(round(s, "parseExpressionPrefix", "element", peek(s) = "COMMA",
                                FALSE, peek(s) # "COMMA"),
                          Append(list, Null))
  ELSE arrayElementParsed(iterated("parseExpressionPrefix", "element", s,
                                   call("parseExpression", <<s, Precedence.COMMA + 1>>)),
                          list)

\* ArrayLiteralExpression once its elements m are known: ']'
arrayClosed(m, startPos) ==
  IF ~m.ok THEN R(Null, m.s)
  ELSE IF peek(m.s) = "CLOSEBRACKET"
       THEN R(createArrayLiteral(m.list, rangeFrom(m.s, startPos, next(m.s).pos)),
              next(m.s))
       ELSE R(Null, error(m.s, "_0_expected", "]"))

\* <Type> prefix once the operand p has been parsed
assertionOperandParsed(p, toType, startPos) ==
  IF p.node = Null THEN R(Null, p.s)
  ELSE R(createAssertion("PREFIX", p.node, toType, rangeFrom(p.s, startPos, p.s.pos)), p.s)

\* <Type once the type r has been parsed: '>' and the operand
assertionTypeParsed(r, startPos) ==
  IF r.node = Null THEN R(Null, r.s)
  ELSE IF peek(r.s) = "GREATERTHAN"
       THEN assertionOperandParsed(call("parseExpressionPrefix", <<next(r.s)>>), r.node, startPos)
       ELSE R(Null, error(r.s, "_0_expected", ">"))

\* parseExpressionPrefix past its tn.next(): token is s1.token, startPos s1.tokenPos
prefixAt(s1, startPos) ==
  CASE s1.token = "NULL" -> R(createNull(range(s1)), s1)
    [] s1.token = "TRUE" -> R(createTrue(range(s1)), s1)
    [] s1.token = "FALSE" -> R(createFalse(range(s1)), s1)
    [] determinePrecedencePrefix(s1.token) # Precedence.INVALID ->
         prefixOperandParsed(call("parseExpression", <<s1, determinePrecedencePrefix(s1.token)>>),
                             s1.token, startPos)
    [] s1.token = "OPENPAREN" ->
         parenthesizedParsed(call("parseExpression", <<s1, 0>>), startPos)
    [] s1.token = "OPENBRACKET" ->
         IF peek(s1) = "CLOSEBRACKET"
         THEN R(createArrayLiteral(<<>>, rangeFrom(s1, startPos, next(s1).pos)), next(s1))
         ELSE arrayClosed(arrayElements(s1, <<>>), startPos)
    [] s1.token = "LESSTHAN" ->
         assertionTypeParsed(call("parseType", <<s1, TRUE>>), startPos)
    [] s1.token = "IDENTIFIER" ->
         R(createIdentifier(readIdentifier(s1), rangeFrom(s1, startPos, s1.pos)), s1)
    [] s1.token = "STRINGLITERAL" ->
         R(createStringLiteral(readString(s1), rangeFrom(s1, startPos, s1.pos)), s1)
    [] s1.token = "INTEGERLITERAL" ->
         R(createIntegerLiteral(readInteger(s1), rangeFrom(s1, startPos, s1.pos)), s1)
    [] s1.token = "FLOATLITERAL" ->
         R(createFloatLiteral(readFloat(s1), rangeFrom(s1, startPos, s1.pos)), s1)
    [] s1.token = "REGEXPLITERAL" ->
         R(createRegexpLiteral(readRegexp(s1), rangeFrom(s1, startPos, s1.pos)), s1)
    [] OTHER -> R(Null, error(s1, "Expression_expected", ""))

parseExpressionPrefix(s) ==
  returns("parseExpressionPrefix", s, prefixAt(next(s), next(s).tokenPos))

\* an attempt that is given up without tn.reset()
typeArgumentsParsed_NoReset(m) ==
  IF ~m.ok THEN L(FALSE, <<>>, m.s)
  ELSE IF peek(m.s) = "GREATERTHAN" /\ peek(next(m.s)) = "OPENPAREN"
       THEN L(TRUE, m.list, next(next(m.s)))
       ELSE L(FALSE, <<>>, skip(m.s, "GREATERTHAN"))

\* the do-while of tryParseTypeArgumentsBeforeArguments has ended with m
typeArgumentsParsed(m) ==
  IF ~m.ok THEN L(FALSE, <<>>, reset(m.s))
  ELSE IF peek(m.s) = "GREATERTHAN" /\ peek(next(m.s)) = "OPENPAREN"
       THEN L(TRUE, m.list, next(next(m.s)))
       ELSE L(FALSE, <<>>, reset(m.s))

\* at '<': Identifier (',' Identifier)* '>' '('
tryParseTypeArgumentsBeforeArguments(s) ==
  attempted(s,
    IF peek(s) # "LESSTHAN" THEN L(FALSE, <<>>, mark(s))
    ELSE typeArgumentsParsed(typeList(next(mark(s)), <<>>)))

\* the while loop of parseExpression
RECURSIVE climb(_, _, _, _)

\* expr as Type, once the type r has been parsed
asTypeParsed(r, expr, precedence, startPos) ==
  IF r.node = Null THEN R(Null, r.s)
  ELSE climb(r.s, createAssertion("AS", expr, r.node, rangeFrom(r.s, startPos, r.s.pos)),
             precedence, startPos)

\* expr [ once the element r has been parsed: ']'
elementParsed(r, expr, precedence, startPos) ==
  IF r.node = Null THEN R(Null, r.s)
  ELSE IF peek(r.s) = "CLOSEBRACKET"
       THEN climb(next(r.s),
                  createElementAccess(expr, r.node, rangeFrom(r.s, startPos, next(r.s).pos)),
                  precedence, startPos)
       ELSE R(Null, error(r.s, "_0_expected", "]"))

\* expr ? ifThen : once ifElse r has been parsed
ifElseParsed(r, expr, ifThen, precedence, startPos) ==
  IF r.node = Null THEN R(Null, r.s)
  ELSE climb(r.s, createSelect(expr, ifThen, r.node, rangeFrom(r.s, startPos, r.s.pos)),
             precedence, startPos)

\* expr ? once ifThen r has been parsed: ':' and ifElse
ifThenParsed(r, expr, precedence, startPos) ==
  IF r.node = Null THEN R(Null, r.s)
  ELSE IF peek(r.s) = "COLON"
       THEN ifElseParsed(call("parseExpression", <<next(r.s), 0>>), expr, r.node, precedence, startPos)
       ELSE R(Null, error(r.s, "_0_expected", ":"))

\* a right operand of '.' that is taken as the property whatever its kind
operandParsed_AnyProperty(r, token, expr, precedence, startPos) ==
  IF r.node = Null THEN R(Null, r.s)
  ELSE IF token = "DOT"
       THEN climb(r.s, createPropertyAccess(expr, r.node,
                         rangeFrom(r.s, startPos, r.s.pos)),
                  precedence, startPos)
       ELSE climb(r.s, createBinary(token, expr, r.node,
                                     rangeFrom(r.s, startPos, r.s.pos)),
                  precedence, startPos)

\* the loop body once the right operand r of token has been parsed
operandParsed(r, token, expr, precedence, startPos) ==
  IF r.node = Null THEN R(Null, r.s)
  ELSE IF token = "DOT"
       THEN IF r.node.kind = "IDENTIFIER"
            THEN climb(r.s, createPropertyAccess(expr, r.node,
                              rangeFrom(r.s, startPos, r.s.pos)),
                       precedence, startPos)
            ELSE R(Null, error(r.s, "Identifier_expected", ""))
       ELSE climb(r.s, createBinary(token, expr, r.node,
                                     rangeFrom(r.s, startPos, r.s.pos)),
                  precedence, startPos)

\* a loop body that parses every right operand at the operator's own level
climbAt_SameLevel(s1, token, nextPrecedence, expr, precedence, startPos) ==
  CASE token = "AS" -> asTypeParsed(call("parseType", <<s1, TRUE>>), expr, precedence, startPos)
    [] token = "QUESTION" ->
         ifThenParsed(call("parseExpression", <<s1, 0>>), expr, precedence, startPos)
    [] OTHER ->
         operandParsed(call("parseExpression", <<s1, nextPrecedence>>),
                       token, expr, precedence, startPos)

\* a loop body that parses every right operand above the operator's level
climbAt_LevelAbove(s1, token, nextPrecedence, expr, precedence, startPos) ==
  CASE token = "AS" -> asTypeParsed(call("parseType", <<s1, TRUE>>), expr, precedence, startPos)
    [] token = "QUESTION" ->
         ifThenParsed(call("parseExpression", <<s1, 0>>), expr, precedence, startPos)
    [] OTHER ->
         operandParsed(call("parseExpression", <<s1, 1 + nextPrecedence>>),
                       token, expr, precedence, startPos)

\* the loop body past its tn.next(): token has precedence nextPrecedence
climbAt(s1, token, nextPrecedence, expr, precedence, startPos) ==
  CASE token = "AS" -> asTypeParsed(call("parseType", <<s1, TRUE>>), expr, precedence, startPos)
    [] token = "OPENBRACKET" ->
         elementParsed(call("parseExpression", <<s1, 0>>), expr, precedence, startPos)
    [] token \in { "PLUS_PLUS", "MINUS_MINUS" } ->
         climb(IF expr.kind \notin IncrementOperands
               THEN error(s1, "The_operand_of_an_increment_or_decrement_operator_must_be_a_variable_or_a_property_access", "")
               ELSE s1,
               createUnaryPostfix(token, expr, rangeFrom(s1, startPos, s1.pos)),
               precedence, startPos)
    [] token = "QUESTION" ->
         ifThenParsed(call("parseExpression", <<s1, 0>>), expr, precedence, startPos)
    [] OTHER ->
         operandParsed(call("parseExpression", <<s1, IF isRightAssociative(token)
                                           THEN nextPrecedence
                                           ELSE 1 + nextPrecedence>>),
                       token, expr, precedence, startPos)

\* precedence climbing
climb(s, expr, precedence, startPos) ==
  IF determinePrecedence(peek(s)) >= precedence
  THEN climbAt(entered("parseExpression", "operator", s, next(s)), peek(s),
               determinePrecedence(peek(s)), expr, precedence, startPos)
  ELSE R(expr, s)

\* CallExpression once parseArguments has returned m
callArgumentsParsed(m, expr, typeArguments, precedence, startPos) ==
  IF ~m.ok THEN R(Null, m.s)
  ELSE climb(m.s, createCall(expr, typeArguments, m.list,
                             rangeFrom(m.s, startPos, m.s.pos)),
             precedence, startPos)

\* a call that loses the type arguments of the speculative attempt
typeArgumentsTried_Dropped(t, expr, precedence, startPos) ==
  IF t.ok
  THEN callArgumentsParsed(call("parseArguments", <<t.s>>), expr, <<>>, precedence, startPos)
  ELSE IF peek(t.s) = "OPENPAREN"
       THEN callArgumentsParsed(call("parseArguments", <<next(t.s)>>), expr, <<>>, precedence, startPos)
       ELSE climb(t.s, expr, precedence, startPos)

\* if (typeArguments || tn.skip(OPENPAREN)), t being the speculative attempt
typeArgumentsTried(t, expr, precedence, startPos) ==
  IF t.ok
  THEN callArgumentsParsed(call("parseArguments", <<t.s>>), expr, t.list, precedence, startPos)
  ELSE IF peek(t.s) = "OPENPAREN"
       THEN callArgumentsParsed(call("parseArguments", <<next(t.s)>>), expr, <<>>, precedence, startPos)
       ELSE climb(t.s, expr, precedence, startPos)

\* parseExpression once parseExpressionPrefix has returned p
prefixParsed(p, precedence) ==
  IF p.node = Null THEN R(Null, p.s)
  ELSE typeArgumentsTried(tryParseTypeArgumentsBeforeArguments(p.s), p.node, precedence,
                          p.node.range.start)

parseExpression(s, precedence) ==
  returns("parseExpression", s, prefixParsed(call("parseExpressionPrefix", <<s>>), precedence))

\* an expression statement that is an empty statement at the end of the text
expressionParsed_EmptyAtEnd(r) ==
  IF r.node = Null
  THEN IF peek(r.s) = "ENDOFFILE" THEN R(createEmpty(range(r.s)), r.s) ELSE R(Null, r.s)
  ELSE R(createExpression(r.node), skip(r.s, "SEMICOLON"))

\* parseExpressionStatement once parseExpression has returned r
expressionParsed(r) ==
  IF r.node = Null THEN R(Null, r.s)
  ELSE R(createExpression(r.node), skip(r.s, "SEMICOLON"))

\* at previous token
parseExpressionStatement(s) ==
  returns("parseExpressionStatement", s, expressionParsed(call("parseExpression", <<s, 0>>)))

----------------------------------------------------------------------------
(* Statements *)

\* parseDecorator once parseArguments has returned m
decoratorArgumentsParsed(m, expression, startPos) ==
  IF m.ok
  THEN R(createDecorator(expression, m.list, rangeFrom(m.s, startPos, m.s.pos)), m.s)
  ELSE R(Null, m.s)

\* while (tn.skip(DOT)) { Identifier }, then '(' Arguments
RECURSIVE decoratorName(_, _, _)
decoratorName(s, expression, startPos) ==
  LET s1 == next(s)
      s2 == next(s1)
  IN IF peek(s) = "DOT"
     THEN IF peek(s1) = "IDENTIFIER"
          THEN decoratorName(entered("parseDecorator", "name", s, s2),
                 createPropertyAccess(expression,
                                      createIdentifier(readIdentifier(s2), range(s2)),
                                      rangeFrom(s2, startPos, s2.pos)),
                 startPos)
          ELSE R(Null, error(s1, "Identifier_expected", ""))
     ELSE IF peek(s) = "OPENPAREN"
          THEN decoratorArgumentsParsed(call("parseArguments", <<s1>>), expression, startPos)
          ELSE R(Null, error(s, "_0_expected", "("))

\* at '@': Identifier ('.' Identifier)* '(' Arguments
parseDecorator(s) ==
  returns("parseDecorator", s,
    IF peek(s) = "IDENTIFIER"
    THEN decoratorName(next(s),
                       createIdentifier(readIdentifier(next(s)),
                                        rangeFrom(s, s.tokenPos, next(s).pos)),
                       s.tokenPos)
    ELSE R(Null, error(s, "Identifier_expected", "")))

\* parseVariableDeclaration once the initializer e has been parsed
variableInitialized(e, identifier, type) ==
  IF e.node = Null THEN R(Null, e.s)
  ELSE R(createVariableDeclaration(identifier, type, e.node,
                                   join(identifier.range, range(e.s))), e.s)

\* parseVariableDeclaration past its type; r.node is Null without a type, and
\* also where parseType has returned null: the code does not test it
variableTyped(r, identifier, isDeclare) ==
  IF peek(r.s) = "EQUALS"
  THEN variableInitialized(
         call("parseExpression", <<IF isDeclare
                         THEN error(next(r.s),
                                    "Initializers_are_not_allowed_in_ambient_contexts", "")
                         ELSE next(r.s), 0>>),
         identifier, r.node)
  ELSE R(createVariableDeclaration(identifier, r.node, Null,
                                   join(identifier.range, range(r.s))), r.s)

\* Identifier (':' Type)? ('=' Expression)?
parseVariableDeclaration(s, isDeclare) ==
  returns("parseVariableDeclaration", s,
    IF peek(s) # "IDENTIFIER" THEN R(Null, error(s, "Identifier_expected", ""))
    ELSE IF peek(next(s)) = "COLON"
         THEN variableTyped(call("parseType", <<next(next(s)), TRUE>>),
                            createIdentifier(readIdentifier(next(s)), range(next(s))),
                            isDeclare)
         ELSE variableTyped(R(Null, error(next(s), "Type_expected", "")),
                            createIdentifier(readIdentifier(next(s)), range(next(s))),
                            isDeclare))

\* do { parseVariableDeclaration } while (tn.skip(COMMA))
RECURSIVE variableDeclarations(_, _, _)

variableDeclarationParsed(r, members, isDeclare) ==
  IF r.node = Null THEN L(FALSE, <<>>, r.s)
  ELSE IF peek(r.s) = "COMMA"
       THEN variableDeclarations(next(r.s), Append(members, r.node), isDeclare)
       ELSE L(TRUE, Append(members, r.node), r.s)

variableDeclarations(s, members, isDeclare) ==
  variableDeclarationParsed(iterated("parseVariable", "declaration", s,
                                     parseVariableDeclaration(s, isDeclare)),
                            members, isDeclare)

\* parseVariable once its loop has ended with m: createVariable, ';'?
variableParsed(m, modifiers, startPos) ==
  IF ~m.ok THEN R(Null, m.s)
  ELSE R(createVariable(modifiers, m.list, rangeFrom(m.s, startPos, m.s.pos)),
         skip(m.s, "SEMICOLON"))

\* at ('const' | 'let' | 'var'): VariableDeclaration (',' VariableDeclaration)* ';'?
parseVariable(s, modifiers) ==
  returns("parseVariable", s,
    variableParsed(variableDeclarations(s, <<>>, hasModifier("DECLARE", modifiers)),
                   modifiers,
                   IF Len(modifiers) > 0 THEN modifiers[1].range.start ELSE s.tokenPos))

\* parseReturn once its expression r has been parsed
returnExpressionParsed(r) ==
  IF r.node = Null THEN R(Null, r.s)
  ELSE R(createReturn(r.node, range(r.s)), skip(r.s, "SEMICOLON"))

\* at 'return': Expression | (';' | '}' | ...'\n')
parseReturn(s) ==
  returns("parseReturn", s,
    IF peek(s) # "SEMICOLON" /\ peek(s) # "CLOSEBRACE" /\ ~nextTokenOnNewLine(s)
    THEN returnExpressionParsed(call("parseExpression", <<s, 0>>))
    ELSE R(createReturn(Null, range(s)), skip(s, "SEMICOLON")))

\* at 'break': Identifier? ';'?
parseBreak(s) ==
  IF peek(s) = "IDENTIFIER" /\ ~nextTokenOnNewLine(s)
  THEN R(createBreak(createIdentifier(readIdentifier(next(s)), range(next(s))),
                     range(next(s))),
         skip(next(s), "SEMICOLON"))
  ELSE R(createBreak(Null, range(s)), skip(s, "SEMICOLON"))

\* at 'continue': Identifier? ';'?
parseContinue(s) ==
  IF peek(s) = "IDENTIFIER" /\ ~nextTokenOnNewLine(s)
  THEN R(createContinue(createIdentifier(readIdentifier(next(s)), range(next(s))),
                        range(next(s))),
         skip(next(s), "SEMICOLON"))
  ELSE R(createContinue(Null, range(s)), skip(s, "SEMICOLON"))

\* parseTypeParameter once the type after 'extends' has been parsed
typeParameterExtended(r, identifier) ==
  IF r.node = Null THEN R(Null, r.s)
  ELSE R(createTypeParameter(identifier, r.node, join(identifier.range, range(r.s))), r.s)

\* parseTypeParameter past its tn.next()
typeParameterAt(s1) ==
  IF s1.token = "IDENTIFIER"
  THEN IF peek(s1) = "EXTENDS"
       THEN typeParameterExtended(call("parseType", <<next(s1), TRUE>>),
                                  createIdentifier(readIdentifier(s1), range(s1)))
       ELSE R(createTypeParameter(createIdentifier(readIdentifier(s1), range(s1)), Null,
                                  join(range(s1), range(s1))), s1)
  ELSE R(Null, error(s1, "Identifier_expected", ""))

\* Identifier ('extends' Type)?
parseTypeParameter(s) ==
  returns("parseTypeParameter", s, typeParameterAt(next(s)))

\* do { parseTypeParameter } while (tn.skip(COMMA))
RECURSIVE typeParameterList(_, _)

typeParameterParsed(r, list) ==
  IF r.node = Null THEN L(FALSE, <<>>, r.s)
  ELSE IF peek(r.s) = "COMMA"
       THEN typeParameterList(next(r.s), Append(list, r.node))
       ELSE L(TRUE, Append(list, r.node), r.s)

typeParameterList(s, list) ==
  typeParameterParsed(iterated("parseTypeParameters", "type", s, parseTypeParameter(s)), list)

\* parseTypeParameters once its loop has ended with m: '>'
typeParameterListClosed(m) ==
  IF ~m.ok THEN L(FALSE, <<>>, m.s)
  ELSE IF peek(m.s) = "GREATERTHAN"
       THEN L(TRUE, m.list, next(m.s))
       ELSE L(FALSE, <<>>, error(m.s, "_0_expected", ">"))

\* at '<': TypeParameter (',' TypeParameter)* '>'
parseTypeParameters(s) ==
  returnsList("parseTypeParameters", s,
    IF peek(s) = "GREATERTHAN"
    THEN L(TRUE, <<>>, error(next(s), "Type_parameter_list_cannot_be_empty", ""))
    ELSE typeParameterListClosed(typeParameterList(s, <<>>)))

\* parseParameter once its initializer e has been parsed
parameterInitialized(e, identifier, type, multiple, startRange) ==
  IF e.node = Null THEN R(Null, e.s)
  ELSE R(createParameter(identifier, type, e.node, multiple,
                         join(startRange, range(e.s))), e.s)

\* parseParameter past its type: ('=' Expression)?
parameterTail(s, identifier, type, multiple, startRange) ==
  IF peek(s) = "EQUALS"
  THEN parameterInitialized(call("parseExpression", <<next(s), 0>>), identifier, type, multiple,
                            startRange)
  ELSE R(createParameter(identifier, type, Null, multiple,
                         join(startRange, range(s))), s)

\* parseParameter once its type r has been parsed
parameterTyped(r, identifier, multiple, startRange) ==
  IF r.node = Null THEN R(Null, r.s)
  ELSE parameterTail(r.s, identifier, r.node, multiple, startRange)

\* parseParameter at its identifier: (':' Type)?
parameterNamed(s1, multiple, startRange) ==
  IF peek(s1) = "COLON"
  THEN parameterTyped(call("parseType", <<next(s1), TRUE>>),
                      createIdentifier(readIdentifier(s1), range(s1)), multiple, startRange)
  ELSE parameterTail(s1, createIdentifier(readIdentifier(s1), range(s1)), Null,
                     multiple, startRange)

\* parseParameter past the optional '...'
parameterAt(s0, multiple) ==
  IF peek(s0) = "IDENTIFIER"
  THEN parameterNamed(next(s0), multiple,
                      IF multiple THEN range(s0) ELSE range(next(s0)))
  ELSE R(Null, error(s0, "Identifier_expected", ""))

\* '...'? Identifier (':' Type)? ('=' Expression)?
parseParameter(s) ==
  returns("parseParameter", s, parameterAt(skip(s, "DOT_DOT_DOT"), peek(s) = "DOT_DOT_DOT"))

\* do { parseParameter } while (tn.skip(COMMA))
RECURSIVE parameterList(_, _)

parameterParsed(r, list) ==
  IF r.node = Null THEN L(FALSE, <<>>, r.s)
  ELSE IF peek(r.s) = "COMMA"
       THEN parameterList(next(r.s), Append(list, r.node))
       ELSE L(TRUE, Append(list, r.node), r.s)

parameterList(s, list) ==
  parameterParsed(iterated("parseParameters", "parameter", s, parseParameter(s)), list)

\* parseParameters once its loop has ended with m: ')'
parametersClosed(m) ==
  IF ~m.ok THEN L(FALSE, <<>>, m.s)
  ELSE IF peek(m.s) = "CLOSEPAREN"
       THEN L(TRUE, m.list, next(m.s))
       ELSE L(FALSE, <<>>, error(m.s, "_0_expected", ")"))

\* at '(': (Parameter (',' Parameter)*)? ')'
parseParameters(s) ==
  returnsList("parseParameters", s,
    IF peek(s) # "CLOSEPAREN"
    THEN parametersClosed(parameterList(s, <<>>))
    ELSE parametersClosed(L(TRUE, <<>>, s)))

\* createFunction(...); tn.skip(SEMICOLON); f holds what has been parsed so far
functionCreated(s, f, statements) ==
  R(createFunction(f.modifiers, f.identifier, f.typeParameters, f.parameters,
                   f.returnType, statements, f.decorators,
                   rangeFrom(s, f.startPos, s.pos)),
    skip(s, "SEMICOLON"))

\* while (!tn.skip(CLOSEBRACE)) { parseStatement(tn) }
RECURSIVE functionStatements(_, _)

\* a loop body that does not push the statement
functionStatementParsed_Dropped(r, statements) ==
  IF r.node = Null THEN L(FALSE, <<>>, r.s)
  ELSE functionStatements(r.s, statements)

\* the loop body once parseStatement has returned r
functionStatementParsed(r, statements) ==
  IF r.node = Null THEN L(FALSE, <<>>, r.s)
  ELSE functionStatements(r.s, Append(statements, r.node))

functionStatements(s, statements) ==
  IF peek(s) = "CLOSEBRACE" THEN L(TRUE, statements, next(s))
  ELSE functionStatementParsed(iterated("parseFunction", "statement", s,
                                        call("parseStatement", <<s, FALSE>>)),
                               statements)

\* parseFunction once the statements m of its body have been parsed
functionBodyParsed(m, f) ==
  IF ~m.ok THEN R(Null, m.s)
  ELSE functionCreated(m.s, f, m.list)

\* parseFunction past its return type: '{' Statement* '}', or no body
functionBody(s, f) ==
  IF peek(s) = "OPENBRACE"
  THEN functionBodyParsed(
         functionStatements(
           IF hasModifier("DECLARE", f.modifiers)
           THEN error(next(s), "An_implementation_cannot_be_declared_in_ambient_contexts", "")
           ELSE next(s), <<>>), f)
  ELSE functionCreated(
         IF ~hasModifier("DECLARE", f.modifiers)
         THEN error(s, "Function_implementation_is_missing_or_not_immediately_following_the_declaration", "")
         ELSE s, f, NoBody)

\* parseFunction once its return type r has been parsed
functionReturnTypeParsed(r, f) ==
  IF r.node = Null THEN R(Null, r.s)
  ELSE functionBody(r.s, [f EXCEPT !.returnType = r.node])

\* parseFunction once parseParameters has returned m: (':' Type)?
functionParametersParsed(m, f) ==
  IF ~m.ok THEN R(Null, m.s)
  ELSE IF peek(m.s) = "COLON"
       THEN functionReturnTypeParsed(call("parseType", <<next(m.s), TRUE>>),
                                     [f EXCEPT !.parameters = m.list])
       ELSE functionBody(error(m.s, "Type_expected", ""),
                         [f EXCEPT !.parameters = m.list])

\* parseFunction once its type parameters m are known: '(' Parameters
functionTypeParametersParsed(m, f) ==
  IF ~m.ok THEN R(Null, m.s)
  ELSE IF peek(m.s) = "OPENPAREN"
       THEN functionParametersParsed(parseParameters(next(m.s)),
                                     [f EXCEPT !.typeParameters = m.list])
       ELSE R(Null, error(m.s, "_0_expected", "("))

\* parseFunction at its identifier: ('<' TypeParameters)?
functionNamed(s1, f) ==
  IF peek(s1) = "LESSTHAN"
  THEN functionTypeParametersParsed(parseTypeParameters(next(s1)), f)
  ELSE functionTypeParametersParsed(L(TRUE, <<>>, s1), f)

\* at 'function': Identifier ('<' TypeParameters)? '(' Parameters (':' Type)?
\* '{' Statement* '}' ';'?      decorators is <<>> where the code has null
parseFunction(s, modifiers, decorators) ==
  returns("parseFunction", s,
    IF peek(s) # "IDENTIFIER" THEN R(Null, error(s, "Identifier_expected", ""))
    ELSE functionNamed(next(s),
           [modifiers |-> modifiers, decorators |-> decorators,
            startPos |-> IF Len(decorators) > 0 THEN decorators[1].range.start
                         ELSE IF Len(modifiers) > 0 THEN modifiers[1].range.start
                         ELSE s.tokenPos,
            identifier |-> createIdentifier(readIdentifier(next(s)), range(next(s))),
            typeParameters |-> <<>>, parameters |-> <<>>, returnType |-> Null]))

\* while (!tn.skip(CLOSEBRACE)) { statement }
RECURSIVE parseBlockStatements(_, _, _)

\* the loop body once parseStatement has returned r
blockStatementParsed(r, statements, topLevel) ==
  IF r.node = Null THEN L(FALSE, <<>>, r.s)
  ELSE parseBlockStatements(r.s, Append(statements, r.node), topLevel)

parseBlockStatements(s, statements, topLevel) ==
  IF peek(s) = "CLOSEBRACE" THEN L(TRUE, statements, next(s))
  ELSE blockStatementParsed(iterated("parseBlockStatement", "statement", s,
                                     call("parseStatement", <<s, topLevel>>)),
                            statements, topLevel)

\* parseBlockStatement once its loop has ended with b: createBlock, ';'?
blockParsed(b, startPos) ==
  IF ~b.ok THEN R(Null, b.s)
  ELSE R(createBlock(b.list, rangeFrom(b.s, startPos, b.s.pos)), skip(b.s, "SEMICOLON"))

\* at '{': Statement* '}' ';'?
parseBlockStatement(s, topLevel) ==
  returns("parseBlockStatement", s,
    blockParsed(parseBlockStatements(s, <<>>, topLevel), s.tokenPos))

\* if (!node) return null; otherwise the rest of the routine, with the result r
orNull(r, rest(_)) == IF r.node = Null THEN R(Null, r.s) ELSE rest(r)

\* if (tn.skip(t)) { rest } else { error(_0_expected, text); return null }
expected(s, t, text, rest(_)) ==
  IF peek(s) = t THEN rest(next(s)) ELSE R(Null, error(s, "_0_expected", text))

\* at 'while': '(' Expression ')' Statement ';'?
parseWhileStatement(s) ==
  returns("parseWhileStatement", s,
    expected(s, "OPENPAREN", "(", LAMBDA s1 :
      orNull(call("parseExpression", <<s1, 0>>), LAMBDA e :
        expected(e.s, "CLOSEPAREN", ")", LAMBDA s2 :
          orNull(call("parseStatement", <<s2, FALSE>>), LAMBDA b :
            R(createWhile(e.node, b.node, join(range(s), range(b.s))),
              skip(b.s, "SEMICOLON")))))))

\* if's ('else' Statement)?, then createIf
ifElse(s, startRange, condition, statement) ==
  IF peek(s) = "ELSE"
  THEN orNull(call("parseStatement", <<next(s), FALSE>>), LAMBDA e :
         R(createIf(condition, statement, e.node, join(startRange, range(e.s))), e.s))
  ELSE R(createIf(condition, statement, Null, join(startRange, range(s))), s)

\* at 'if': '(' Expression ')' Statement ('else' Statement)?
parseIfStatement(s) ==
  returns("parseIfStatement", s,
    expected(s, "OPENPAREN", "(", LAMBDA s1 :
      orNull(call("parseExpression", <<s1, 0>>), LAMBDA c :
        IF peek(c.s) = "CLOSEPAREN"
        THEN orNull(call("parseStatement", <<next(c.s), FALSE>>), LAMBDA b :
               ifElse(b.s, range(s), c.node, b.node))
        ELSE R(Null, error(c.s, "_0_expected", ")")))))

\* the same where the routine returns a list: if (!node) return null
orNullList(r, rest(_)) == IF r.node = Null THEN L(FALSE, <<>>, r.s) ELSE rest(r)

\* a list a loop has built, or null: if the loop has returned null, return null
listOrNull(m, rest(_)) == IF ~m.ok THEN R(Null, m.s) ELSE rest(m)

\* at 'do': Statement 'while' '(' Expression ')' ';'?
parseDoStatement(s) ==
  returns("parseDoStatement", s,
    orNull(call("parseStatement", <<s, FALSE>>), LAMBDA b :
      expected(b.s, "WHILE", "while", LAMBDA s1 :
        expected(s1, "OPENPAREN", "(", LAMBDA s2 :
          orNull(call("parseExpression", <<s2, 0>>), LAMBDA c :
            expected(c.s, "CLOSEPAREN", ")", LAMBDA s3 :
              R(createDo(b.node, c.node, rangeFrom(s3, s.tokenPos, s3.pos)),
                skip(s3, "SEMICOLON"))))))))

\* parseForStatement from if (tn.token == Token.SEMICOLON) on, i being the
\* initializer: Expression ';' Expression ')' Statement
forInitialized(s, i, startPos) ==
  IF s.token = "SEMICOLON"
  THEN orNull(call("parseExpression", <<s, 0>>), LAMBDA c :
         expected(c.s, "SEMICOLON", ";", LAMBDA s3 :
           orNull(call("parseExpression", <<s3, 0>>), LAMBDA n :
             expected(n.s, "CLOSEPAREN", ")", LAMBDA s4 :
               orNull(call("parseStatement", <<s4, FALSE>>), LAMBDA b :
                 R(createFor(i, c.node, n.node, b.node,
                             rangeFrom(b.s, startPos, b.s.pos)), b.s))))))
  ELSE R(Null, error(s, "_0_expected", ";"))

\* at 'for': '(' Statement? Expression? ';' Expression? ')' Statement
parseForStatement(s) ==
  returns("parseForStatement", s,
    expected(s, "OPENPAREN", "(", LAMBDA s1 :
      orNull(call("parseStatement", <<s1, FALSE>>), LAMBDA i :
        forInitialized(IF i.node.kind \notin { "EXPRESSION", "VARIABLE" }
                       THEN error(i.s, "Expression_expected", "")
                       ELSE i.s,
                       i.node, s.tokenPos))))

\* while (tn.peek() != CASE && tn.nextToken != DEFAULT && tn.nextToken != CLOSEBRACE)
RECURSIVE caseStatements(_, _)
caseStatements(s, statements) ==
  IF peek(s) \in { "CASE", "DEFAULT", "CLOSEBRACE" } THEN L(TRUE, statements, s)
  ELSE orNullList(iterated("parseSwitchCase", "statement", s,
                           call("parseStatement", <<s, FALSE>>)), LAMBDA r :
         caseStatements(r.s, Append(statements, r.node)))

\* 'case' Expression ':' Statement* | 'default' ':' Statement*
parseSwitchCase(s) ==
  returns("parseSwitchCase", s,
    IF peek(s) = "CASE"
    THEN orNull(call("parseExpression", <<next(s), 0>>), LAMBDA l :
           expected(l.s, "COLON", ":", LAMBDA s1 :
             listOrNull(caseStatements(s1, <<>>), LAMBDA m :
               R(createSwitchCase(l.node, m.list, rangeFrom(m.s, s.tokenPos, m.s.pos)),
                 m.s))))
    ELSE IF peek(s) = "DEFAULT"
    THEN expected(next(s), "COLON", ":", LAMBDA s1 :
           listOrNull(caseStatements(s1, <<>>), LAMBDA m :
             R(createSwitchCase(Null, m.list, rangeFrom(m.s, s.tokenPos, m.s.pos)),
               m.s)))
    ELSE R(Null, error(s, "_case_or_default_expected", "")))

\* while (!tn.skip(CLOSEBRACE)) { parseSwitchCase }
RECURSIVE switchCases(_, _)
switchCases(s, cases) ==
  IF peek(s) = "CLOSEBRACE" THEN L(TRUE, cases, next(s))
  ELSE orNullList(iterated("parseSwitchStatement", "case", s, parseSwitchCase(s)), LAMBDA c :
         switchCases(c.s, Append(cases, c.node)))

\* at 'switch': '(' Expression ')' '{' SwitchCase* '}' ';'?
parseSwitchStatement(s) ==
  returns("parseSwitchStatement", s,
    expected(s, "OPENPAREN", "(", LAMBDA s1 :
      orNull(call("parseExpression", <<s1, 0>>), LAMBDA c :
        expected(c.s, "CLOSEPAREN", ")", LAMBDA s2 :
          expected(s2, "OPENBRACE", "{", LAMBDA s3 :
            listOrNull(switchCases(s3, <<>>), LAMBDA m :
              R(createSwitch(c.node, m.list, rangeFrom(m.s, s.tokenPos, m.s.pos)),
                skip(m.s, "SEMICOLON"))))))))

\* at 'throw': Expression ';'?
parseThrowStatement(s) ==
  returns("parseThrowStatement", s,
    orNull(call("parseExpression", <<s, 0>>), LAMBDA e :
      R(createThrow(e.node, rangeFrom(e.s, s.tokenPos, e.s.pos)), skip(e.s, "SEMICOLON"))))

\* parseTryStatement past its catch clause: ('finally' '{' Statement* '}')?, the
\* check that there is a catch or a finally, createTry
tryFinally(s, startRange, statements, catchVariable, catchStatements) ==
  IF peek(s) = "FINALLY"
  THEN expected(next(s), "OPENBRACE", "{", LAMBDA s1 :
         listOrNull(parseBlockStatements(s1, <<>>, FALSE), LAMBDA f :
           R(createTry(statements, catchVariable, catchStatements, f.list,
                       join(startRange, range(f.s))),
             skip(f.s, "SEMICOLON"))))
  ELSE IF catchStatements = NoBody
       THEN R(Null, error(s, "_0_expected", "catch"))
       ELSE R(createTry(statements, catchVariable, catchStatements, NoBody,
                        join(startRange, range(s))),
              skip(s, "SEMICOLON"))

\* parseTryStatement past 'catch': '(' Identifier ')' '{' Statement* '}'
tryCatch(s, startRange, statements) ==
  expected(s, "OPENPAREN", "(", LAMBDA s1 :
    IF peek(s1) # "IDENTIFIER" THEN R(Null, error(s1, "Identifier_expected", ""))
    ELSE expected(next(s1), "CLOSEPAREN", ")", LAMBDA s2 :
           expected(s2, "OPENBRACE", "{", LAMBDA s3 :
             listOrNull(parseBlockStatements(s3, <<>>, FALSE), LAMBDA c :
               tryFinally(c.s, startRange, statements,
                          createIdentifier(readIdentifier(next(s1)), range(next(s1))),
                          c.list)))))

\* at 'try': '{' Statement* '}' ('catch' '(' VariableMember ')' '{' Statement* '}')?
\* ('finally' '{' Statement* '}'? ';'?
parseTryStatement(s) ==
  returns("parseTryStatement", s,
    expected(s, "OPENBRACE", "{", LAMBDA s1 :
      listOrNull(parseBlockStatements(s1, <<>>, FALSE), LAMBDA b :
        IF peek(b.s) = "CATCH"
        THEN tryCatch(next(b.s), range(s), b.list)
        ELSE tryFinally(b.s, range(s), b.list, Null, NoBody))))

----------------------------------------------------------------------------
(* Enums and classes *)

\* Identifier ('=' Expression)?
parseEnumValue(s) ==
  returns("parseEnumValue", s,
    IF peek(s) # "IDENTIFIER" THEN R(Null, error(s, "Identifier_expected", ""))
    ELSE IF peek(next(s)) = "EQUALS"
         THEN orNull(call("parseExpression", <<next(next(s)), Precedence.COMMA + 1>>), LAMBDA v :
                R(createEnumValue(createIdentifier(readIdentifier(next(s)), range(next(s))),
                                  v.node, join(range(next(s)), range(v.s))),
                  v.s))
         ELSE R(createEnumValue(createIdentifier(readIdentifier(next(s)), range(next(s))),
                                Null, range(next(s))),
                next(s)))

\* do { parseEnumValue; push } while (tn.skip(COMMA))
RECURSIVE enumValues(_, _)
enumValues(s, members) ==
  orNullList(iterated("parseEnum", "member", s, parseEnumValue(s)), LAMBDA r :
    IF peek(r.s) = "COMMA" THEN enumValues(next(r.s), Append(members, r.node))
    ELSE L(TRUE, Append(members, r.node), r.s))

\* createEnum(...); tn.skip(SEMICOLON)
enumCreated(s, modifiers, identifier, members, startPos) ==
  R(createEnum(modifiers, identifier, members, rangeFrom(s, startPos, s.pos)),
    skip(s, "SEMICOLON"))

\* parseEnum at its name s1 (tn.next() has read it) and the following token s2
enumNamed(s1, s2, modifiers, startPos) ==
  IF s2.token # "OPENBRACE" THEN R(Null, error(s2, "_0_expected", "{"))
  ELSE IF peek(s2) = "CLOSEBRACE"
       THEN enumCreated(next(s2), modifiers,
                        createIdentifier(readIdentifier(s1), range(s1)), <<>>, startPos)
       ELSE listOrNull(enumValues(s2, <<>>), LAMBDA m :
              expected(m.s, "CLOSEBRACE", "}", LAMBDA s3 :
                enumCreated(s3, modifiers,
                            createIdentifier(readIdentifier(s1), range(s1)), m.list,
                            startPos)))

\* at 'enum': Identifier '{' (EnumValueDeclaration (',' EnumValueDeclaration )*)? '}' ';'?
parseEnum(s, modifiers) ==
  returns("parseEnum", s,
    IF next(s).token # "IDENTIFIER"
    THEN R(Null, error(next(s), "Identifier_expected", ""))
    ELSE enumNamed(next(s), next(next(s)), modifiers,
                   IF Len(modifiers) > 0 THEN modifiers[1].range.start ELSE s.tokenPos))

\* if (tn.skip(one of kinds)) modifiers = addModifier(createModifier(kind), modifiers)
skipModifier(m, kinds) ==
  IF peek(m.s) \in kinds
  THEN L(TRUE, addModifier(createModifier(peek(m.s), range(next(m.s))), m.list), next(m.s))
  ELSE m

\* if (hasModifier(kind)) error(_0_modifier_cannot_be_used_here, text)
unusableModifier(s, modifierKind, text, modifiers) ==
  IF hasModifier(modifierKind, modifiers)
  THEN error(s, "_0_modifier_cannot_be_used_here", text)
  ELSE s

\* while (tn.skip(AT)) { parseDecorator; if (!decorator) break; push }
RECURSIVE memberDecorators(_, _)

memberDecoratorParsed(r, decorators) ==
  IF r.node = Null THEN L(TRUE, decorators, r.s)
  ELSE memberDecorators(r.s, Append(decorators, r.node))

memberDecorators(s, decorators) ==
  IF peek(s) = "AT"
  THEN memberDecoratorParsed(
         parseDecorator(entered("parseClassMember", "decorator", s, next(s))), decorators)
  ELSE L(TRUE, decorators, s)

\* createMethod(...); tn.skip(SEMICOLON); c holds what has been parsed so far
methodCreated(s, c, statements) ==
  R(createMethod(c.modifiers, c.identifier, c.typeParameters, c.parameters,
                 c.returnType, statements, c.decorators, join(c.startRange, range(s))),
    skip(s, "SEMICOLON"))

\* a method past its return type: '{' Statement* '}', or no body
methodBody(s, c) ==
  IF peek(s) = "OPENBRACE"
  THEN listOrNull(functionStatements(IF c.parentIsDeclare
                                     THEN error(next(s), "An_implementation_cannot_be_declared_in_ambient_contexts", "")
                                     ELSE next(s), <<>>), LAMBDA b :
         methodCreated(b.s, c, b.list))
  ELSE methodCreated(IF ~c.parentIsDeclare
                     THEN error(s, "Function_implementation_is_missing_or_not_immediately_following_the_declaration", "")
                     ELSE s, c, NoBody)

\* method: '(' Parameters (':' Type)? '{' Statement* '}' ';'?   s is past the '('
classMethod(s, c) ==
  listOrNull(parseParameters(s), LAMBDA p :
    IF peek(p.s) = "COLON"
    THEN orNull(call("parseType", <<next(p.s), TRUE>>), LAMBDA t :
           methodBody(t.s, [c EXCEPT !.parameters = p.list, !.returnType = t.node]))
    ELSE methodBody(error(p.s, "Type_expected", ""), [c EXCEPT !.parameters = p.list]))

\* a field past its type: ('=' Expression)? ';'?
fieldInitializer(s, c, type) ==
  IF peek(s) = "EQUALS"
  THEN orNull(call("parseExpression", <<next(s), 0>>), LAMBDA i :
         R(createField(c.modifiers, c.identifier, type, i.node, c.decorators,
                       join(c.startRange, range(i.s))),
           skip(i.s, "SEMICOLON")))
  ELSE R(createField(c.modifiers, c.identifier, type, Null, c.decorators,
                     join(c.startRange, range(s))),
         skip(s, "SEMICOLON"))

\* field: (':' Type)? ('=' Expression)? ';'?    s is past the modifier checks
classField(s, c) ==
  IF peek(s) = "COLON"
  THEN orNull(call("parseType", <<next(s), TRUE>>), LAMBDA t :
         fieldInitializer(t.s, c, t.node))
  ELSE fieldInitializer(error(s, "Type_expected", ""), c, Null)

\* parseClassMember at its identifier s1, m being the type parameters
classMemberNamed(m, c) ==
  listOrNull(m, LAMBDA tp :
    IF peek(tp.s) = "OPENPAREN"
    THEN classMethod(next(tp.s), [c EXCEPT !.typeParameters = tp.list])
    ELSE classField(unusableModifier(
                      unusableModifier(
                        unusableModifier(tp.s, "ABSTRACT", "abstract", c.modifiers),
                        "GET", "get", c.modifiers),
                      "SET", "set", c.modifiers),
                    [c EXCEPT !.typeParameters = tp.list]))

\* parseClassMember past its decorators d and its modifiers m
classMemberModified(d, m, startRange, parentIsDeclare) ==
  IF peek(m.s) # "IDENTIFIER" THEN R(Null, error(m.s, "Identifier_expected", ""))
  ELSE classMemberNamed(
         IF peek(next(m.s)) = "LESSTHAN" THEN parseTypeParameters(next(next(m.s)))
         ELSE L(TRUE, <<>>, next(m.s)),
         [startRange |-> startRange, parentIsDeclare |-> parentIsDeclare,
          decorators |-> d.list, modifiers |-> m.list,
          identifier |-> createIdentifier(readIdentifier(next(m.s)), range(next(m.s))),
          typeParameters |-> <<>>, parameters |-> <<>>, returnType |-> Null])

\* parseClassMember past its decorators d
classMemberDecorated(d, startRange, parentIsDeclare) ==
  classMemberModified(d,
    skipModifier(skipModifier(skipModifier(L(TRUE, <<>>, d.s),
                                           { "PUBLIC", "PRIVATE", "PROTECTED" }),
                              { "STATIC", "ABSTRACT" }),
                 { "GET", "SET" }),
    startRange, parentIsDeclare)

\* ('public' | 'private' | 'protected')? ('static' | 'abstract')? ('get' | 'set')? Identifier ...
parseClassMember(s, parentIsDeclare) ==
  returns("parseClassMember", s,
    classMemberDecorated(memberDecorators(s, <<>>), range(s), parentIsDeclare))

\* do { parseClassMember; push } while (!tn.skip(CLOSEBRACE))
RECURSIVE classMembers(_, _, _)
classMembers(s, members, isDeclare) ==
  orNullList(iterated("parseClass", "member", s, parseClassMember(s, isDeclare)), LAMBDA r :
    IF peek(r.s) = "CLOSEBRACE" THEN L(TRUE, Append(members, r.node), next(r.s))
    ELSE classMembers(r.s, Append(members, r.node), isDeclare))

\* do { parseType; push } while (tn.skip(COMMA))
RECURSIVE implementsTypes(_, _)
implementsTypes(s, types) ==
  orNullList(iterated("parseClass", "type", s, call("parseType", <<s, TRUE>>)), LAMBDA r :
    IF peek(r.s) = "COMMA" THEN implementsTypes(next(r.s), Append(types, r.node))
    ELSE L(TRUE, Append(types, r.node), r.s))

\* createClass(...); c holds what has been parsed so far
classCreated(s, c, members) ==
  R(createClass(c.modifiers, c.identifier, c.typeParameters, c.extendsType,
                c.implementsTypes, members, c.decorators,
                rangeFrom(s, c.startPos, s.pos)),
    s)

\* parseClass past its heritage: '{' ClassMember* '}'
classBody(s, c) ==
  IF peek(s) # "OPENBRACE" THEN R(Null, error(s, "_0_expected", "{"))
  ELSE IF peek(next(s)) = "CLOSEBRACE" THEN classCreated(next(next(s)), c, <<>>)
  ELSE listOrNull(classMembers(next(s), <<>>, hasModifier("DECLARE", c.modifiers)), LAMBDA m :
         classCreated(m.s, c, m.list))

\* parseClass past 'extends': ('implements' Type (',' Type)*)?
classImplements(s, c) ==
  IF peek(s) = "IMPLEMENTS"
  THEN listOrNull(implementsTypes(next(s), <<>>), LAMBDA i :
         classBody(i.s, [c EXCEPT !.implementsTypes = i.list]))
  ELSE classBody(s, c)

\* parseClass once its type parameters m are known: ('extends' Type)?
classNamed(m, c) ==
  listOrNull(m, LAMBDA tp :
    IF peek(tp.s) = "EXTENDS"
    THEN orNull(call("parseType", <<next(tp.s), TRUE>>), LAMBDA t :
           classImplements(t.s, [c EXCEPT !.typeParameters = tp.list,
                                          !.extendsType = t.node]))
    ELSE classImplements(tp.s, [c EXCEPT !.typeParameters = tp.list]))

\* at 'class': Identifier ('<' TypeParameters)? ('extends' Type)?
\* ('implements' Type (',' Type)*)? '{' ClassMember* '}'
\* decorators is <<>> where the code has null
parseClass(s, modifiers, decorators) ==
  returns("parseClass", s,
    IF peek(s) # "IDENTIFIER" THEN R(Null, error(s, "Identifier_expected", ""))
    ELSE classNamed(
           IF peek(next(s)) = "LESSTHAN" THEN parseTypeParameters(next(next(s)))
           ELSE L(TRUE, <<>>, next(s)),
           [modifiers |-> modifiers, decorators |-> decorators,
            startPos |-> IF Len(decorators) > 0 THEN decorators[1].range.start
                         ELSE IF Len(modifiers) > 0 THEN modifiers[1].range.start
                         ELSE s.tokenPos,
            identifier |-> createIdentifier(readIdentifier(next(s)), range(next(s))),
            typeParameters |-> <<>>, extendsType |-> Null, implementsTypes |-> <<>>]))

----------------------------------------------------------------------------
(* Parser.parseStatement *)

\* parseStatement past tn.mark() and tn.next()
statementAt(s1, topLevel) ==
  CASE s1.token = "BREAK" -> parseBreak(s1)
    [] s1.token = "CONST" ->
         parseVariable(s1, <<createModifier("CONST", range(s1))>>)
    [] s1.token = "CONTINUE" -> parseContinue(s1)
    [] s1.token \in { "LET", "VAR" } -> parseVariable(s1, <<>>)
    [] s1.token = "OPENBRACE" -> parseBlockStatement(s1, topLevel)
    [] s1.token = "RETURN" ->
         parseReturn(IF topLevel
                     THEN error(s1, "A_return_statement_can_only_be_used_within_a_function_body", "")
                     ELSE s1)
    [] s1.token = "SEMICOLON" -> R(createEmpty(rangeAt(s1, s1.tokenPos)), s1)
    [] s1.token = "DO" -> parseDoStatement(s1)
    [] s1.token = "FOR" -> parseForStatement(s1)
    [] s1.token = "IF" -> parseIfStatement(s1)
    [] s1.token = "SWITCH" -> parseSwitchStatement(s1)
    [] s1.token = "THROW" -> parseThrowStatement(s1)
    [] s1.token = "TRY" -> parseTryStatement(s1)
    [] s1.token = "WHILE" -> parseWhileStatement(s1)
    [] OTHER -> parseExpressionStatement(restored("parseStatement", s1.tokenPos, s1))

\* at previous token
parseStatement(s, topLevel) ==
  returns("parseStatement", s, statementAt(next(mark(s)), topLevel))

call(routine, args) ==
  CASE routine = "parseType" -> parseType(args[1], args[2])
    [] routine = "parseExpressionPrefix" -> parseExpressionPrefix(args[1])
    [] routine = "parseExpression" -> parseExpression(args[1], args[2])
    [] routine = "parseArguments" -> parseArguments(args[1])
    [] routine = "parseStatement" -> parseStatement(args[1], args[2])
    [] routine = "parseEnum" -> parseEnum(args[1], args[2])
    [] routine = "parseClass" -> parseClass(args[1], args[2], args[3])

----------------------------------------------------------------------------
(* Parser.parseFile *)

\* one record of the history of a parseFile call: the statement an iteration of
\* the top-level loop produced, and the work-list before and after it
\* collected are the decorators of the iteration, s1 the state at the token the
\* switch looks at, invalid the number of diagnostics 1206 of the iteration
LogEntry(before, r, collected, s1) ==
  [node |-> r.node,
   backlogBefore |-> before.backlog, seenlogBefore |-> before.seenlog,
   backlogAfter |-> r.s.backlog, seenlogAfter |-> r.s.seenlog,
   collected |-> collected, token |-> s1.token, following |-> peek(s1),
   invalid |-> Cardinality({ i \in Len(before.diags) + 1..Len(r.s.diags) :
                              r.s.diags[i].code = "Decorators_are_not_valid_here" })]

\* the default case of the switch: an export, or a statement
topLevelDefault(s1, modifiers) ==
  IF hasModifier("EXPORT", modifiers)
  THEN parseExport(restored("parseFile", s1.tokenPos, s1), modifiers)
  ELSE call("parseStatement",
            <<restored("parseFile", s1.tokenPos,
                       IF Len(modifiers) > 0 /\ hasModifier("DECLARE", modifiers)
                       THEN error(s1, "_0_modifier_cannot_be_used_here", "declare")
                       ELSE s1),
              TRUE>>)

\* the switch (tn.next()) of the top-level loop, s1 being the state after
\* tn.mark() and tn.next(); 'type' falls through to the default case
parseTopLevelStatement(s1, modifiers, decorators) ==
  CASE s1.token = "CONST" ->
         IF peek(s1) = "ENUM"
         THEN call("parseEnum",
                   <<next(s1), addModifier(createModifier("CONST", range(s1)), modifiers)>>)
         ELSE parseVariable(s1, addModifier(createModifier("CONST", range(s1)), modifiers))
    [] s1.token \in { "VAR", "LET" } -> parseVariable(s1, modifiers)
    [] s1.token = "ENUM" -> call("parseEnum", <<s1, modifiers>>)
    [] s1.token = "FUNCTION" -> parseFunction(s1, modifiers, decorators)
    [] s1.token = "ABSTRACT" ->
         IF peek(s1) # "CLASS" THEN R(Null, error(s1, "_0_expected", "class"))
         ELSE call("parseClass",
                   <<next(s1),
                     addModifier(createModifier("ABSTRACT", range(next(s1))), modifiers),
                     decorators>>)
    [] s1.token = "CLASS" -> call("parseClass", <<s1, modifiers, decorators>>)
    [] s1.token = "IMPORT" ->
         IF hasModifier("EXPORT", modifiers)
         THEN parseExportImport(s1, getModifier("EXPORT", modifiers).range)
         ELSE parseImport(s1)
    [] OTHER -> topLevelDefault(s1, modifiers)

\* a switch that leaves the decorators where they are
unattached_Kept(s1, decorators) == decorators

\* the decorators after the switch: the cases that hand them to parseFunction or
\* parseClass set them to null (<<>> here)
unattached(s1, decorators) ==
  IF s1.token \in { "FUNCTION", "CLASS" } \/ (s1.token = "ABSTRACT" /\ peek(s1) = "CLASS")
  THEN <<>>
  ELSE decorators

\* if (decorators) for each of them: error Decorators_are_not_valid_here
decoratorsChecked(r, decorators) ==
  R(r.node,
    [r.s EXCEPT !.diags =
       @ \o [i \in 1..Len(decorators) |->
               [code |-> "Decorators_are_not_valid_here", arg |-> "", category |-> "ERROR"]]])

\* r, with the history of the call one entry longer
logged(before, r, collected, s1) ==
  R(r.node, [r.s EXCEPT !.log = Append(@, LogEntry(before, r, collected, s1))])

\* one iteration of the top-level loop past its decorators: the modifiers,
\* tn.mark(), the switch and the check of the decorators
topLevelDecorated(s0, decorators, before) ==
  LET s1 == skip(s0, "EXPORT")
      m1 == IF peek(s0) = "EXPORT"
            THEN addModifier(createModifier("EXPORT", range(s1)), <<>>)
            ELSE <<>>
      s2 == skip(s1, "DECLARE")
      m2 == IF peek(s1) = "DECLARE"
            THEN addModifier(createModifier("DECLARE", range(s2)), m1)
            ELSE m1
      s3 == IF peek(s1) = "DECLARE" /\ nextTokenOnNewLine(s2)
            THEN error(s2, "Line_break_not_permitted_here", "")
            ELSE s2
  IN logged(before,
            decoratorsChecked(parseTopLevelStatement(next(mark(s3)), m2, decorators),
                              unattached(next(mark(s3)), decorators)),
            decorators, next(mark(s3)))

\* while (tn.skip(AT)) { parseDecorator; if (!decorator) break; push }
RECURSIVE topLevelDecorators(_, _)

decoratorParsed(r, decorators) ==
  IF r.node = Null THEN L(TRUE, decorators, r.s)
  ELSE topLevelDecorators(r.s, Append(decorators, r.node))

topLevelDecorators(s, decorators) ==
  IF peek(s) = "AT"
  THEN decoratorParsed(parseDecorator(entered("parseFile", "decorator", s, next(s))),
                       decorators)
  ELSE L(TRUE, decorators, s)

\* the rest of an iteration once the decorator loop has ended with d
decoratorsParsed(d, before) == topLevelDecorated(d.s, d.list, before)

\* one iteration of the top-level loop, up to if (!statement)
parseTopLevel(s) == decoratorsParsed(topLevelDecorators(s, <<>>), s)

\* statement.parent = source; source.statements.push(statement)
appendStatement(source, statement) ==
  [source EXCEPT !.statements = Append(@, [statement EXCEPT !.parent = source.normalizedPath])]

\* a loop that goes on to the next statement where the code returns
RECURSIVE parseFileLoop_Continue(_, _)
parseFileLoop_Continue(s, source) ==
  IF peek(s) = "ENDOFFILE" THEN [s |-> next(s), source |-> source]
  ELSE LET r == parseTopLevel(s)
       IN IF r.node = Null
          THEN parseFileLoop_Continue(r.s, source)
          ELSE parseFileLoop_Continue(r.s, appendStatement(source, r.node))

\* while (!tn.skip(Token.ENDOFFILE)) { ... }; source is the Source being filled
RECURSIVE parseFileLoop(_, _)

\* if (!statement) return; statement.parent = source; push; and round again
topLevelParsed(r, source) ==
  IF r.node = Null
  THEN [s |-> r.s, source |-> source]
  ELSE parseFileLoop(r.s, appendStatement(source, r.node))

parseFileLoop(s, source) ==
  IF peek(s) = "ENDOFFILE" THEN [s |-> next(s), source |-> source]
  ELSE topLevelParsed(iterated("parseFile", "topLevel", s, parseTopLevel(s)), source)

----------------------------------------------------------------------------
(* The operations of the Parser *)

\* what a call gave back: arg is the path given to parseFile, path the value of
\* nextFile (NullPath for null), program the value of finish
Outcome(op, arg, status, err, path, program) ==
  [op |-> op, arg |-> arg, status |-> status, error |-> err, path |-> path,
   program |-> program]

\* constructor()
Init ==
  /\ sources = <<>>
  /\ backlog = <<>>
  /\ seenlog = {}
  /\ diagnostics = <<>>
  /\ result = Outcome("new", NullPath, "ok", "", NullPath, <<>>)
  /\ returned = <<>>
  /\ enqueued = <<>>
  /\ log = <<>>
  /\ nulls = <<>>
  /\ checkpoints = <<>>
  /\ rounds = <<>>
  /\ fed = 0

\* the host's view of the duplicate check of parseFile
isDuplicate(path) ==
  \E i \in 1..Len(sources) : sources[i].normalizedPath = normalizePath(path)

\* new Tokenizer(source, diagnostics), with the Parser's work-list as the parse
\* routines of the call see it
parserState(source, seen) ==
  [toks |-> source.text, origin |-> source.normalizedPath,
   pos |-> 0, token |-> "", tokenPos |-> 0,
   marked |-> [pos |-> 0, token |-> "", tokenPos |-> 0, n |-> 0],
   diags |-> diagnostics, backlog |-> backlog, seenlog |-> seen,
   pushed |-> <<>>, log |-> <<>>, nulls |-> <<>>, checkpoints |-> <<>>, rounds |-> <<>>]

\* the Parser when the loop of parseFile has ended with out
fileParsed(out, path) ==
  /\ sources' = Append(sources, out.source)
  /\ backlog' = out.s.backlog
  /\ seenlog' = out.s.seenlog
  /\ diagnostics' = out.s.diags
  /\ enqueued' = enqueued \o out.s.pushed
  /\ log' = out.s.log
  /\ nulls' = out.s.nulls
  /\ checkpoints' = out.s.checkpoints
  /\ rounds' = out.s.rounds
  /\ result' = Outcome("parseFile", path, "ok", "", NullPath, <<>>)
  /\ UNCHANGED returned

\* parseFile past its duplicate check: seenlog.add, the new Source, the loop
parseNewSource(text, path, isEntry) ==
  LET source == createSource(path, text, isEntry)
  IN fileParsed(parseFileLoop(parserState(source, seenlog \cup {normalizePath(path)}),
                              source), path)

\* a parseFile that does seenlog.add before its duplicate check
ParseFile_SeenlogFirst(text, path, isEntry) ==
  LET normalizedPath == normalizePath(path)
  IN IF \E i \in 1..Len(sources) : sources[i].normalizedPath = normalizedPath
     THEN /\ result' = Outcome("parseFile", path, "throw", "duplicate source", NullPath, <<>>)
          /\ seenlog' = seenlog \cup {normalizedPath}
          /\ UNCHANGED <<sources, backlog, diagnostics, returned, enqueued, log, nulls,
                      checkpoints, rounds>>
     ELSE parseNewSource(text, path, isEntry)

\* a parseFile whose duplicate check compares the paths as given
ParseFile_RawPathCheck(text, path, isEntry) ==
  IF \E i \in 1..Len(sources) : sources[i].path = path
  THEN /\ result' = Outcome("parseFile", path, "throw", "duplicate source", NullPath, <<>>)
       /\ UNCHANGED <<sources, backlog, seenlog, diagnostics, returned, enqueued, log, nulls,
                      checkpoints, rounds>>
  ELSE parseNewSource(text, path, isEntry)

\* parseFile(text, path, isEntry)
ParseFile(text, path, isEntry) ==
  LET normalizedPath == normalizePath(path)
  IN IF \E i \in 1..Len(sources) : sources[i].normalizedPath = normalizedPath
     THEN /\ result' = Outcome("parseFile", path, "throw", "duplicate source", NullPath, <<>>)
          /\ UNCHANGED <<sources, backlog, seenlog, diagnostics, returned, enqueued, log, nulls,
                      checkpoints, rounds>>
     ELSE parseNewSource(text, path, isEntry)

\* a shift that only drops the last slot
shifted_Truncate(list) == SubSeq(list, 1, Len(list) - 1)

\* the backlog after nextFile's shift loop and length--
shifted(list) == [i \in 1..(Len(list) - 1) |-> list[i + 1]]

\* nextFile()
NextFile ==
  IF Len(backlog) > 0
  THEN LET filename == backlog[1]
       IN /\ backlog' = shifted(backlog)
          /\ result' = Outcome("nextFile", NullPath, "ok", "", filename, <<>>)
          /\ returned' = Append(returned, filename)
          /\ UNCHANGED <<sources, seenlog, diagnostics, enqueued, log, nulls,
                      checkpoints, rounds>>
  ELSE /\ result' = Outcome("nextFile", NullPath, "ok", "", NullPath, <<>>)
       /\ UNCHANGED <<sources, backlog, seenlog, diagnostics, returned, enqueued, log, nulls,
                      checkpoints, rounds>>

\* a finish without its backlog check
Finish_NoCheck ==
  /\ backlog' = <<>>
  /\ seenlog' = {}
  /\ result' = Outcome("finish", NullPath, "ok", "", NullPath, sources)
  /\ UNCHANGED <<sources, diagnostics, returned, enqueued, log, nulls,
                      checkpoints, rounds>>

\* finish()
Finish ==
  IF Len(backlog) > 0
  THEN /\ result' = Outcome("finish", NullPath, "throw", "backlog is not empty", NullPath, <<>>)
       /\ UNCHANGED <<sources, backlog, seenlog, diagnostics, returned, enqueued, log, nulls,
                      checkpoints, rounds>>
  ELSE /\ backlog' = <<>>
       /\ seenlog' = {}
       /\ result' = Outcome("finish", NullPath, "ok", "", NullPath, sources)
       /\ UNCHANGED <<sources, diagnostics, returned, enqueued, log, nulls,
                      checkpoints, rounds>>

\* The host calls parseFile with a text of n forms.  A call with the path of a
\* Source of the Program throws before it reads its text: one text stands for all.
HostParseFile ==
  \E path \in FilePaths :
    \E n \in 0..(IF isDuplicate(path) THEN 0 ELSE MaxStatements - fed) :
      \E text \in TextsOf(n) :
        /\ ParseFile(text, path, Len(sources) = 0)
        /\ fed' = IF isDuplicate(path) THEN fed ELSE fed + n

HostNextFile == NextFile /\ UNCHANGED fed

HostFinish == Finish /\ UNCHANGED fed

Next ==
  \/ HostParseFile
  \/ HostNextFile
  \/ HostFinish

Spec == Init /\ [][Next]_vars

----------------------------------------------------------------------------
(* A Parser that is given one file, of expressions, statements and          *)
(* functions.  The texts hold no enum, class, do, for, if, switch, throw,   *)
(* try, while or type token.                                                *)

IntLit(n) == [t |-> "INTEGERLITERAL", v |-> <<n>>, nl |-> FALSE]

\* the tokens of determinePrecedence that make a BinaryExpression
BinaryTokens ==
  AssignmentTokens \cup
  { "COMMA", "BAR_BAR", "AMPERSAND_AMPERSAND", "BAR", "CARET", "AMPERSAND",
    "EQUALS_EQUALS", "EXCLAMATION_EQUALS", "EQUALS_EQUALS_EQUALS",
    "EXCLAMATION_EQUALS_EQUALS", "IN", "INSTANCEOF", "LESSTHAN", "GREATERTHAN",
    "LESSTHAN_EQUALS", "GREATERTHAN_EQUALS", "LESSTHAN_LESSTHAN",
    "GREATERTHAN_GREATERTHAN", "GREATERTHAN_GREATERTHAN_GREATERTHAN",
    "PLUS", "MINUS", "ASTERISK", "SLASH", "PERCENT", "ASTERISK_ASTERISK", "NEW" }

\* a op1 b op2 c
PairText(op1, op2) == << Ident("a"), Tok(op1), Ident("b"), Tok(op2), Ident("c") >>

PairTexts == { PairText(op1, op2) : op1, op2 \in BinaryTokens }

\* the sequences of at most n elements of a set
SeqsUpTo(set, n) == UNION { [1..k -> set] : k \in 0..n }

\* the elements of a list of token sequences, with a sep token between them
RECURSIVE Joined(_, _)
Joined(list, sep) ==
  IF Len(list) = 0 THEN <<>>
  ELSE IF Len(list) = 1 THEN list[1]
  ELSE list[1] \o <<Tok(sep)>> \o Joined(Tail(list), sep)

\* the types of the texts: T, T | null, T[], T[] | null
TextTypes == [array : BOOLEAN, nullable : BOOLEAN]

TypeTokens(type) ==
  <<Ident("T")>> \o
  (IF type.array THEN <<Tok("OPENBRACKET"), Tok("CLOSEBRACKET")>> ELSE <<>>) \o
  (IF type.nullable THEN <<Tok("BAR"), Tok("NULL")>> ELSE <<>>)

TypeLists == SeqsUpTo(TextTypes, MaxTypeArguments) \ { <<>> }

ArgumentNames == { "x", "y" }

ArgumentLists == SeqsUpTo(ArgumentNames, MaxArguments)

\* f < types > ( args )
CallText(types, args) ==
  <<Ident("f"), Tok("LESSTHAN")>> \o
  Joined([i \in 1..Len(types) |-> TypeTokens(types[i])], "COMMA") \o
  <<Tok("GREATERTHAN"), Tok("OPENPAREN")>> \o
  Joined([i \in 1..Len(args) |-> <<Ident(args[i])>>], "COMMA") \o
  <<Tok("CLOSEPAREN")>>

CallTexts == { CallText(types, args) : types \in TypeLists, args \in ArgumentLists }

\* the operands of new in the texts: Foo and a.b
NewOperands == { <<Ident("Foo")>>, <<Ident("a"), Tok("DOT"), Ident("b")>> }

IntegerLists == SeqsUpTo({ 1, 2 }, MaxArguments)

\* new operand            (without parentheses)
NewText(operand) == <<Tok("NEW")>> \o operand

\* new operand ( args )   and   new operand < T > ( args )
NewCallText(operand, typed, args) ==
  <<Tok("NEW")>> \o operand \o
  (IF typed THEN <<Tok("LESSTHAN"), Ident("T"), Tok("GREATERTHAN")>> ELSE <<>>) \o
  <<Tok("OPENPAREN")>> \o
  Joined([i \in 1..Len(args) |-> <<IntLit(args[i])>>], "COMMA") \o
  <<Tok("CLOSEPAREN")>>

NewTexts ==
  { NewText(operand) : operand \in NewOperands } \cup
  { NewCallText(operand, typed, args) :
      operand \in NewOperands, typed \in BOOLEAN, args \in IntegerLists }

\* operand [ element ], operand a or a.b, element i or an integer
ElementOperands == { <<Ident("a")>>, <<Ident("a"), Tok("DOT"), Ident("b")>> }

ElementIndexes == { Ident("i"), IntLit(0) }

ElementText(operand, index) ==
  operand \o <<Tok("OPENBRACKET"), index, Tok("CLOSEBRACKET")>>

ElementTexts ==
  { ElementText(operand, index) : operand \in ElementOperands, index \in ElementIndexes }

\* the arguments of the texts: x, a conditional, a parenthesised comma expression
\* and an array literal
ArgumentForms ==
  { <<Ident("x")>>,
    <<Ident("c"), Tok("QUESTION"), Ident("x"), Tok("COLON"), Ident("y")>>,
    <<Tok("OPENPAREN"), Ident("x"), Tok("COMMA"), Ident("y"), Tok("CLOSEPAREN")>>,
    <<Tok("OPENBRACKET"), Ident("x"), Tok("COMMA"), Ident("y"), Tok("CLOSEBRACKET")>> }

ArgumentFormLists == SeqsUpTo(ArgumentForms, MaxArguments) \ { <<>> }

\* f ( forms )
ArgumentsText(forms) ==
  <<Ident("f"), Tok("OPENPAREN")>> \o Joined(forms, "COMMA") \o <<Tok("CLOSEPAREN")>>

ArgumentsTexts == { ArgumentsText(forms) : forms \in ArgumentFormLists }

\* a : i32
TypedName(name) == <<Ident(name), Tok("COLON"), Ident("i32")>>

\* function add(a: i32, b: i32): i32 { return a + b; }
AddFunctionText ==
  <<Tok("FUNCTION"), Ident("add"), Tok("OPENPAREN")>> \o TypedName("a") \o
  <<Tok("COMMA")>> \o TypedName("b") \o
  <<Tok("CLOSEPAREN"), Tok("COLON"), Ident("i32"), Tok("OPENBRACE"),
    Tok("RETURN"), Ident("a"), Tok("PLUS"), Ident("b"), Tok("SEMICOLON"),
    Tok("CLOSEBRACE")>>

\* @d.e(x) export function f<T, U extends T>(...r: T[] = y) { break l; continue; return }
DecoratedFunctionText ==
  <<Tok("AT"), Ident("d"), Tok("DOT"), Ident("e"), Tok("OPENPAREN"), Ident("x"),
    Tok("CLOSEPAREN"), Tok("EXPORT"), Tok("FUNCTION"), Ident("f"),
    Tok("LESSTHAN"), Ident("T"), Tok("COMMA"), Ident("U"), Tok("EXTENDS"), Ident("T"),
    Tok("GREATERTHAN"), Tok("OPENPAREN"), Tok("DOT_DOT_DOT"), Ident("r"), Tok("COLON"),
    Ident("T"), Tok("OPENBRACKET"), Tok("CLOSEBRACKET"), Tok("EQUALS"), Ident("y"),
    Tok("CLOSEPAREN"), Tok("OPENBRACE"), Tok("BREAK"), Ident("l"), Tok("SEMICOLON"),
    Tok("CONTINUE"), Tok("SEMICOLON"), Tok("RETURN"), Tok("CLOSEBRACE")>>

\* declare function g(): void;
DeclaredFunctionText ==
  <<Tok("DECLARE"), Tok("FUNCTION"), Ident("g"), Tok("OPENPAREN"), Tok("CLOSEPAREN"),
    Tok("COLON"), Tok("VOID"), Tok("SEMICOLON")>>

\* let x: T = a, y: (T)[] | null; const z = b
VariablesText ==
  <<Tok("LET")>> \o <<Ident("x"), Tok("COLON"), Ident("T"), Tok("EQUALS"), Ident("a"),
    Tok("COMMA"), Ident("y"), Tok("COLON"), Tok("OPENPAREN"), Ident("T"),
    Tok("CLOSEPAREN"), Tok("OPENBRACKET"), Tok("CLOSEBRACKET"), Tok("BAR"), Tok("NULL"),
    Tok("SEMICOLON"), Tok("CONST"), Ident("z"), Tok("EQUALS"), Ident("b")>>

\* export const k: T<U, this> | null = "s"
ExportedConstText ==
  <<Tok("EXPORT"), Tok("CONST"), Ident("k"), Tok("COLON"), Ident("T"), Tok("LESSTHAN"),
    Ident("U"), Tok("COMMA"), Tok("THIS"), Tok("GREATERTHAN"), Tok("BAR"), Tok("NULL"),
    Tok("EQUALS"), Str(<<"s">>)>>

\* { return a + b; ; continue l; var v: bool }
BlockText ==
  <<Tok("OPENBRACE"), Tok("RETURN"), Ident("a"), Tok("PLUS"), Ident("b"),
    Tok("SEMICOLON"), Tok("SEMICOLON"), Tok("CONTINUE"), Ident("l"), Tok("SEMICOLON"),
    Tok("VAR"), Ident("v"), Tok("COLON"), Tok("TRUE"), Tok("CLOSEBRACE")>>

\* abstract x
AbstractText == <<Tok("ABSTRACT"), Ident("x")>>

\* x = <T>y as T; [a, , b]; (a); -a++; c ? null : 1
ExpressionsText ==
  <<Ident("x"), Tok("EQUALS"), Tok("LESSTHAN"), Ident("T"), Tok("GREATERTHAN"),
    Ident("y"), Tok("AS"), Ident("T"), Tok("SEMICOLON"),
    Tok("OPENBRACKET"), Ident("a"), Tok("COMMA"), Tok("COMMA"), Ident("b"),
    Tok("CLOSEBRACKET"), Tok("SEMICOLON"),
    Tok("OPENPAREN"), Ident("a"), Tok("CLOSEPAREN"), Tok("SEMICOLON"),
    Tok("MINUS"), Ident("a"), Tok("PLUS_PLUS"), Tok("SEMICOLON"),
    Ident("c"), Tok("QUESTION"), Tok("NULL"), Tok("COLON"), IntLit(1)>>

StatementTexts ==
  { AddFunctionText, DecoratedFunctionText, DeclaredFunctionText, VariablesText,
    ExportedConstText, BlockText, AbstractText, ExpressionsText }

\* every text of a set, cut after each of its tokens
Truncated(texts) ==
  UNION { { SubSeq(text, 1, k) : k \in 0..Len(text) } : text \in texts }

ExprTexts ==
  PairTexts \cup
  Truncated(CallTexts \cup NewTexts \cup ElementTexts \cup ArgumentsTexts \cup StatementTexts)

\* the host gives the one file of the Program
HostParseText ==
  /\ sources = <<>>
  /\ \E text \in ExprTexts : ParseFile(text, <<"a", Ext>>, TRUE)
  /\ UNCHANGED fed

ExprNext == HostParseText

ExprSpec == Init /\ [][ExprNext]_vars

----------------------------------------------------------------------------
(* A Parser that is given one file of control statements, declarations     *)
(* with their types, member accesses, comparisons, decorated statements,    *)
(* classes or enums, or a text that ends in the middle of a statement.      *)

MaxDepth == 2   \* control statements around the innermost statement of a text

MaxSuffixes == 3   \* [] and | null suffixes after the base form of a type in a text

MaxFollowing == 3   \* tokens after the '<' of a text

\* for ( init cond? ; incr? ) x ;   with init one of  let i = 0 ;   i = 0 ;   ;
ForInitializers == { "let", "expression", "empty" }

ForText(init, cond, incr) ==
  <<Tok("FOR"), Tok("OPENPAREN")>> \o
  (CASE init = "let" -> <<Tok("LET"), Ident("i"), Tok("EQUALS"), IntLit(0)>>
     [] init = "expression" -> <<Ident("i"), Tok("EQUALS"), IntLit(0)>>
     [] init = "empty" -> <<>>) \o
  <<Tok("SEMICOLON")>> \o
  (IF cond THEN <<Ident("c")>> ELSE <<>>) \o
  <<Tok("SEMICOLON")>> \o
  (IF incr THEN <<Ident("i"), Tok("PLUS_PLUS")>> ELSE <<>>) \o
  <<Tok("CLOSEPAREN"), Ident("x"), Tok("SEMICOLON")>>

ForTexts == { ForText(init, cond, incr) : init \in ForInitializers, cond, incr \in BOOLEAN }

\* the statements that can stand around a statement
Wrappers ==
  { "block", "if", "else", "while", "do", "for", "switch", "try", "catch", "finally",
    "function" }

\* body with one statement around it
Wrap(wrapper, body) ==
  CASE wrapper = "block" -> <<Tok("OPENBRACE")>> \o body \o <<Tok("CLOSEBRACE")>>
    [] wrapper = "if" ->
         <<Tok("IF"), Tok("OPENPAREN"), Ident("c"), Tok("CLOSEPAREN")>> \o body
    [] wrapper = "else" ->
         <<Tok("IF"), Tok("OPENPAREN"), Ident("c"), Tok("CLOSEPAREN"), Tok("SEMICOLON"),
           Tok("ELSE")>> \o body
    [] wrapper = "while" ->
         <<Tok("WHILE"), Tok("OPENPAREN"), Ident("c"), Tok("CLOSEPAREN")>> \o body
    [] wrapper = "do" ->
         <<Tok("DO")>> \o body \o
         <<Tok("WHILE"), Tok("OPENPAREN"), Ident("c"), Tok("CLOSEPAREN")>>
    [] wrapper = "for" ->
         <<Tok("FOR"), Tok("OPENPAREN"), Ident("i"), Tok("EQUALS"), IntLit(0),
           Tok("SEMICOLON"), Ident("c"), Tok("SEMICOLON"), Ident("i"),
           Tok("CLOSEPAREN")>> \o body
    [] wrapper = "switch" ->
         <<Tok("SWITCH"), Tok("OPENPAREN"), Ident("c"), Tok("CLOSEPAREN"),
           Tok("OPENBRACE"), Tok("CASE"), IntLit(1), Tok("COLON")>> \o body \o
         <<Tok("CLOSEBRACE")>>
    [] wrapper = "try" ->
         <<Tok("TRY"), Tok("OPENBRACE")>> \o body \o
         <<Tok("CLOSEBRACE"), Tok("FINALLY"), Tok("OPENBRACE"), Tok("CLOSEBRACE")>>
    [] wrapper = "catch" ->
         <<Tok("TRY"), Tok("OPENBRACE"), Tok("CLOSEBRACE"), Tok("CATCH"),
           Tok("OPENPAREN"), Ident("e"), Tok("CLOSEPAREN"), Tok("OPENBRACE")>> \o body \o
         <<Tok("CLOSEBRACE")>>
    [] wrapper = "finally" ->
         <<Tok("TRY"), Tok("OPENBRACE"), Tok("CLOSEBRACE"), Tok("FINALLY"),
           Tok("OPENBRACE")>> \o body \o <<Tok("CLOSEBRACE")>>
    [] wrapper = "function" ->
         <<Tok("FUNCTION"), Ident("f"), Tok("OPENPAREN"), Tok("CLOSEPAREN"),
           Tok("COLON"), Tok("VOID"), Tok("OPENBRACE")>> \o body \o <<Tok("CLOSEBRACE")>>

\* body with the statements of wrappers around it, the first one outermost
RECURSIVE Wrapped(_, _)
Wrapped(wrappers, body) ==
  IF wrappers = <<>> THEN body
  ELSE Wrap(Head(wrappers), Wrapped(Tail(wrappers), body))

\* a function declaration is a top-level statement only
Nestings ==
  { w \in SeqsUpTo(Wrappers, MaxDepth) : \A i \in 2..Len(w) : w[i] # "function" }

\* return ;
ReturnText == <<Tok("RETURN"), Tok("SEMICOLON")>>

ReturnTexts == { Wrapped(w, ReturnText) : w \in Nestings }

\* the base forms of a type: void, this, true, false, "s", T, T<U>
TypeBases == { "void", "this", "true", "false", "string", "name", "generic" }

BaseTokens(base) ==
  CASE base = "void" -> <<Tok("VOID")>>
    [] base = "this" -> <<Tok("THIS")>>
    [] base = "true" -> <<Tok("TRUE")>>
    [] base = "false" -> <<Tok("FALSE")>>
    [] base = "string" -> <<Str(<<"s">>)>>
    [] base = "name" -> <<Ident("T")>>
    [] base = "generic" ->
         <<Ident("T"), Tok("LESSTHAN"), Ident("U"), Tok("GREATERTHAN")>>

\* what can follow a base form: [] and | null
TypeSuffixes == { "array", "nullable" }

SuffixTokens(suffix) ==
  IF suffix = "array" THEN <<Tok("OPENBRACKET"), Tok("CLOSEBRACKET")>>
  ELSE <<Tok("BAR"), Tok("NULL")>>

\* the token sequences of a list, one after the other
RECURSIVE Concat(_)
Concat(list) == IF list = <<>> THEN <<>> ELSE Head(list) \o Concat(Tail(list))

\* let x : base suffixes ;
DeclarationText(base, suffixes) ==
  <<Tok("LET"), Ident("x"), Tok("COLON")>> \o BaseTokens(base) \o
  Concat([i \in 1..Len(suffixes) |-> SuffixTokens(suffixes[i])]) \o <<Tok("SEMICOLON")>>

DeclarationTexts ==
  { DeclarationText(base, suffixes) :
      base \in TypeBases, suffixes \in SeqsUpTo(TypeSuffixes, MaxSuffixes) }

\* the places of a parenthesized type: (T), ((T)), A<(T)>, (A<(T)>), A<B<(T)>>
ParenthesizedPlaces ==
  { "outermost", "parentheses", "argument", "argumentInParentheses", "argumentOfArgument" }

ParenthesizedT == <<Tok("OPENPAREN"), Ident("T"), Tok("CLOSEPAREN")>>

ArgumentOf(name, type) ==
  <<Ident(name), Tok("LESSTHAN")>> \o type \o <<Tok("GREATERTHAN")>>

ParenthesizedTokens(place) ==
  CASE place = "outermost" -> ParenthesizedT
    [] place = "parentheses" ->
         <<Tok("OPENPAREN")>> \o ParenthesizedT \o <<Tok("CLOSEPAREN")>>
    [] place = "argument" -> ArgumentOf("A", ParenthesizedT)
    [] place = "argumentInParentheses" ->
         <<Tok("OPENPAREN")>> \o ArgumentOf("A", ParenthesizedT) \o <<Tok("CLOSEPAREN")>>
    [] place = "argumentOfArgument" -> ArgumentOf("A", ArgumentOf("B", ParenthesizedT))

\* x as type ;
ParenthesizedText(place) ==
  <<Ident("x"), Tok("AS")>> \o ParenthesizedTokens(place) \o <<Tok("SEMICOLON")>>

ParenthesizedTexts == { ParenthesizedText(place) : place \in ParenthesizedPlaces }

\* the right operands of a '.': b, b(c), b<T>(c), 1, (b), true, "s", new b, -b
MemberOperands ==
  { <<Ident("b")>>,
    <<Ident("b"), Tok("OPENPAREN"), Ident("c"), Tok("CLOSEPAREN")>>,
    <<Ident("b"), Tok("LESSTHAN"), Ident("T"), Tok("GREATERTHAN"), Tok("OPENPAREN"),
      Ident("c"), Tok("CLOSEPAREN")>>,
    <<IntLit(1)>>,
    <<Tok("OPENPAREN"), Ident("b"), Tok("CLOSEPAREN")>>,
    <<Tok("TRUE")>>,
    <<Str(<<"s">>)>>,
    <<Tok("NEW"), Ident("b")>>,
    <<Tok("MINUS"), Ident("b")>> }

\* what follows the operand: nothing, . c, + c, = c
MemberTails ==
  { <<>>, <<Tok("DOT"), Ident("c")>>, <<Tok("PLUS"), Ident("c")>>,
    <<Tok("EQUALS"), Ident("c")>> }

\* a . operand tail
MemberText(operand, tail) == <<Ident("a"), Tok("DOT")>> \o operand \o tail

MemberTexts == { MemberText(operand, tail) : operand \in MemberOperands, tail \in MemberTails }

\* the tokens that follow the '<' of a text
FollowingTokens ==
  { Ident("b"), IntLit(1), Tok("GREATERTHAN"), Tok("OPENPAREN"), Tok("CLOSEPAREN"),
    Tok("COMMA") }

\* a < following
AttemptText(following) == <<Ident("a"), Tok("LESSTHAN")>> \o following

AttemptTexts == { AttemptText(following) : following \in SeqsUpTo(FollowingTokens, MaxFollowing) }

MaxDecorators == 2   \* decorators in front of a statement of a text

\* @a(1)   @a.b()   and a name without arguments, which is no decorator: @a
DecoratorForms == { "call", "member", "unapplied" }

DecoratorTokens(form) ==
  CASE form = "call" ->
         <<Tok("AT"), Ident("a"), Tok("OPENPAREN"), IntLit(1), Tok("CLOSEPAREN")>>
    [] form = "member" ->
         <<Tok("AT"), Ident("a"), Tok("DOT"), Ident("b"), Tok("OPENPAREN"),
           Tok("CLOSEPAREN")>>
    [] form = "unapplied" -> <<Tok("AT"), Ident("a")>>

\* what follows the decorators
DecoratedForms ==
  { "function", "exportFunction", "class", "abstractClass", "abstract", "let",
    "expression", "enum", "export", "block", "namelessFunction", "namelessClass", "nothing" }

DecoratedTokens(form) ==
  CASE form = "function" ->
         <<Tok("FUNCTION"), Ident("f"), Tok("OPENPAREN"), Tok("CLOSEPAREN"), Tok("COLON"),
           Tok("VOID"), Tok("OPENBRACE"), Tok("CLOSEBRACE")>>
    [] form = "exportFunction" ->
         <<Tok("EXPORT"), Tok("FUNCTION"), Ident("f"), Tok("OPENPAREN"), Tok("CLOSEPAREN"),
           Tok("COLON"), Tok("VOID"), Tok("OPENBRACE"), Tok("CLOSEBRACE")>>
    [] form = "class" ->
         <<Tok("CLASS"), Ident("C"), Tok("OPENBRACE"), Tok("AT"), Ident("b"),
           Tok("OPENPAREN"), Tok("CLOSEPAREN"), Ident("x"), Tok("COLON"), Ident("i32"),
           Tok("SEMICOLON"), Tok("CLOSEBRACE")>>
    [] form = "abstractClass" ->
         <<Tok("ABSTRACT"), Tok("CLASS"), Ident("C"), Tok("OPENBRACE"), Tok("CLOSEBRACE")>>
    [] form = "abstract" -> <<Tok("ABSTRACT"), Ident("x"), Tok("SEMICOLON")>>
    [] form = "let" ->
         <<Tok("LET"), Ident("x"), Tok("COLON"), Ident("i32"), Tok("EQUALS"), IntLit(1),
           Tok("SEMICOLON")>>
    [] form = "expression" -> <<Ident("x"), Tok("SEMICOLON")>>
    [] form = "enum" ->
         <<Tok("ENUM"), Ident("E"), Tok("OPENBRACE"), Ident("A"), Tok("CLOSEBRACE")>>
    [] form = "export" ->
         <<Tok("EXPORT"), Tok("OPENBRACE"), Ident("x"), Tok("CLOSEBRACE"), Tok("SEMICOLON")>>
    [] form = "block" -> <<Tok("OPENBRACE"), Tok("CLOSEBRACE")>>
    [] form = "namelessFunction" -> <<Tok("FUNCTION"), Tok("OPENPAREN")>>
    [] form = "namelessClass" -> <<Tok("CLASS"), Tok("OPENBRACE")>>
    [] form = "nothing" -> <<>>

\* decorators, then what follows them
DecoratedText(decorators, form) ==
  Concat([i \in 1..Len(decorators) |-> DecoratorTokens(decorators[i])]) \o
  DecoratedTokens(form)

\* one decorated statement, and a second one behind it
DecoratedTexts ==
  { DecoratedText(d, form) \o DecoratedText(e, second) :
      d \in SeqsUpTo(DecoratorForms, MaxDecorators), form \in DecoratedForms,
      e \in { <<>>, <<"call">> }, second \in { "nothing", "function", "let" } }

\* texts that go round every loop of the parser more than once
LoopTexts ==
  { \* { x; y; }
    <<Tok("OPENBRACE"), Ident("x"), Tok("SEMICOLON"), Ident("y"), Tok("SEMICOLON"),
      Tok("CLOSEBRACE")>>,
    \* switch (c) { case 1: x; y; default: z; w; }
    <<Tok("SWITCH"), Tok("OPENPAREN"), Ident("c"), Tok("CLOSEPAREN"), Tok("OPENBRACE"),
      Tok("CASE"), IntLit(1), Tok("COLON"), Ident("x"), Tok("SEMICOLON"), Ident("y"),
      Tok("SEMICOLON"), Tok("DEFAULT"), Tok("COLON"), Ident("z"), Tok("SEMICOLON"),
      Ident("w"), Tok("SEMICOLON"), Tok("CLOSEBRACE")>>,
    \* class C<T, U> extends B implements I, J {
    \*   @d() @e() public static x: i32 = 1; f(a: i32, b: i32): void { x; y; } }
    <<Tok("CLASS"), Ident("C"), Tok("LESSTHAN"), Ident("T"), Tok("COMMA"), Ident("U"),
      Tok("GREATERTHAN"), Tok("EXTENDS"), Ident("B"), Tok("IMPLEMENTS"), Ident("I"),
      Tok("COMMA"), Ident("J"), Tok("OPENBRACE"),
      Tok("AT"), Ident("d"), Tok("OPENPAREN"), Tok("CLOSEPAREN"),
      Tok("AT"), Ident("e"), Tok("OPENPAREN"), Tok("CLOSEPAREN"),
      Tok("PUBLIC"), Tok("STATIC"), Ident("x"), Tok("COLON"), Ident("i32"), Tok("EQUALS"),
      IntLit(1), Tok("SEMICOLON"),
      Ident("f"), Tok("OPENPAREN"), Ident("a"), Tok("COLON"), Ident("i32"), Tok("COMMA"),
      Ident("b"), Tok("COLON"), Ident("i32"), Tok("CLOSEPAREN"), Tok("COLON"), Tok("VOID"),
      Tok("OPENBRACE"), Ident("x"), Tok("SEMICOLON"), Ident("y"), Tok("SEMICOLON"),
      Tok("CLOSEBRACE"), Tok("CLOSEBRACE")>>,
    \* enum E { A, B = 1 }
    <<Tok("ENUM"), Ident("E"), Tok("OPENBRACE"), Ident("A"), Tok("COMMA"), Ident("B"),
      Tok("EQUALS"), IntLit(1), Tok("CLOSEBRACE")>>,
    \* f<A, B>(a, b + c * d, [a, , b, ]);
    <<Ident("f"), Tok("LESSTHAN"), Ident("A"), Tok("COMMA"), Ident("B"), Tok("GREATERTHAN"),
      Tok("OPENPAREN"), Ident("a"), Tok("COMMA"), Ident("b"), Tok("PLUS"), Ident("c"),
      Tok("ASTERISK"), Ident("d"), Tok("COMMA"), Tok("OPENBRACKET"), Ident("a"),
      Tok("COMMA"), Tok("COMMA"), Ident("b"), Tok("COMMA"), Tok("CLOSEBRACKET"),
      Tok("CLOSEPAREN"), Tok("SEMICOLON")>>,
    \* try { x; y; } catch (e) { x; y; } finally { x; y; }
    <<Tok("TRY"), Tok("OPENBRACE"), Ident("x"), Tok("SEMICOLON"), Ident("y"),
      Tok("SEMICOLON"), Tok("CLOSEBRACE"), Tok("CATCH"), Tok("OPENPAREN"), Ident("e"),
      Tok("CLOSEPAREN"), Tok("OPENBRACE"), Ident("x"), Tok("SEMICOLON"), Ident("y"),
      Tok("SEMICOLON"), Tok("CLOSEBRACE"), Tok("FINALLY"), Tok("OPENBRACE"), Ident("x"),
      Tok("SEMICOLON"), Ident("y"), Tok("SEMICOLON"), Tok("CLOSEBRACE")>>,
    \* let a: A<B, C>[][] = new D(b, c), b: i32;
    <<Tok("LET"), Ident("a"), Tok("COLON"), Ident("A"), Tok("LESSTHAN"), Ident("B"),
      Tok("COMMA"), Ident("C"), Tok("GREATERTHAN"), Tok("OPENBRACKET"),
      Tok("CLOSEBRACKET"), Tok("OPENBRACKET"), Tok("CLOSEBRACKET"), Tok("EQUALS"),
      Tok("NEW"), Ident("D"), Tok("OPENPAREN"), Ident("b"), Tok("COMMA"), Ident("c"),
      Tok("CLOSEPAREN"), Tok("COMMA"), Ident("b"), Tok("COLON"), Ident("i32"),
      Tok("SEMICOLON")>>,
    \* import { a, b as c } from "./other"; export { a, b };
    <<Tok("IMPORT"), Tok("OPENBRACE"), Ident("a"), Tok("COMMA"), Ident("b"), Tok("AS"),
      Ident("c"), Tok("CLOSEBRACE"), Tok("FROM"), Str(<<".", "other">>), Tok("SEMICOLON"),
      Tok("EXPORT"), Tok("OPENBRACE"), Ident("a"), Tok("COMMA"), Ident("b"),
      Tok("CLOSEBRACE"), Tok("SEMICOLON")>>,
    \* @a.b.c(1, 2) @d() function f<T, U>(a: i32, b: i32): void { x; y; } z;
    <<Tok("AT"), Ident("a"), Tok("DOT"), Ident("b"), Tok("DOT"), Ident("c"),
      Tok("OPENPAREN"), IntLit(1), Tok("COMMA"), IntLit(2), Tok("CLOSEPAREN"),
      Tok("AT"), Ident("d"), Tok("OPENPAREN"), Tok("CLOSEPAREN"),
      Tok("FUNCTION"), Ident("f"), Tok("LESSTHAN"), Ident("T"), Tok("COMMA"), Ident("U"),
      Tok("GREATERTHAN"), Tok("OPENPAREN"), Ident("a"), Tok("COLON"), Ident("i32"),
      Tok("COMMA"), Ident("b"), Tok("COLON"), Ident("i32"), Tok("CLOSEPAREN"),
      Tok("COLON"), Tok("VOID"), Tok("OPENBRACE"), Ident("x"), Tok("SEMICOLON"),
      Ident("y"), Tok("SEMICOLON"), Tok("CLOSEBRACE"), Ident("z"), Tok("SEMICOLON")>>,
    \* @a(+) x;    the decorator is given up, the statement behind it is parsed
    <<Tok("AT"), Ident("a"), Tok("OPENPAREN"), Tok("PLUS"), Tok("CLOSEPAREN"), Ident("x"),
      Tok("SEMICOLON")>> }

\* every text that ends somewhere inside one of those, or at its end
TruncatedTexts ==
  UNION { { SubSeq(text, 1, n) : n \in 0..Len(text) } : text \in LoopTexts }

StmtTexts ==
  ForTexts \cup ReturnTexts \cup DeclarationTexts \cup ParenthesizedTexts \cup MemberTexts \cup
  AttemptTexts \cup DecoratedTexts \cup TruncatedTexts

\* the host gives the one file of the Program
HostParseStatements ==
  /\ sources = <<>>
  /\ \E text \in StmtTexts : ParseFile(text, <<"a", Ext>>, TRUE)
  /\ UNCHANGED fed

StmtNext == HostParseStatements

StmtSpec == Init /\ [][StmtNext]_vars

----------------------------------------------------------------------------
(* Properties *)

NoRepeat(list) == \A i, j \in 1..Len(list) : i # j => list[i] # list[j]

Last(list) == list[Len(list)]

\* the statement forms a text is made of, in order
RECURSIVE FormsOf(_)
FormsOf(text) ==
  IF text = <<>> THEN <<>>
  ELSE LET f == CHOOSE g \in StatementForms :
                  Len(g) <= Len(text) /\ SubSeq(text, 1, Len(g)) = g
       IN <<f>> \o FormsOf(SubSeq(text, Len(f) + 1, Len(text)))

\* the offset at which the k-th form of a list of forms starts
RECURSIVE OffsetOf(_, _)
OffsetOf(forms, k) == IF k = 1 THEN 0 ELSE OffsetOf(forms, k - 1) + Len(forms[k - 1])

\* the kind of statement a form is a text of; NULL for a form that does not parse
KindOf(form) ==
  CASE form[1].t = "IMPORT" -> "IMPORT"
    [] form[1].t = "EXPORT" /\ form[2].t = "IMPORT" -> "NULL"
    [] form[1].t = "EXPORT" -> "EXPORT"
    [] OTHER -> "BLOCK"

\* the number of forms before the first one that does not parse
Parsed(forms) ==
  IF \E k \in 1..Len(forms) : KindOf(forms[k]) = "NULL"
  THEN (CHOOSE k \in 1..Len(forms) :
          /\ KindOf(forms[k]) = "NULL"
          /\ \A j \in 1..(k - 1) : KindOf(forms[j]) # "NULL") - 1
  ELSE Len(forms)

\* C1: over any sequence of parseFile, nextFile and finish calls, calls after a
\* finish that returned included, nextFile never returns the same path twice.
C1_NextFileNeverRepeats == NoRepeat(returned)

\* C2: a parseFile call with a path whose normalization is the normalizedPath of a
\* Source of the Program throws 'duplicate source' and changes no Source, nor
\* seenlog, backlog or the diagnostics.
C2_DuplicateChangesNothing ==
  [][ (/\ result'.op = "parseFile"
       /\ \E i \in 1..Len(sources) :
            sources[i].normalizedPath = normalizePath(result'.arg))
      => /\ result'.status = "throw"
         /\ result'.error = "duplicate source"
         /\ UNCHANGED <<sources, seenlog, backlog, diagnostics>> ]_vars

\* a duplicate call was made with another spelling of a Source's path, after a finish
C2_Witness ==
  /\ result.op = "parseFile"
  /\ result.status = "throw"
  /\ seenlog = {}
  /\ \E i \in 1..Len(sources) :
       /\ sources[i].path # result.arg
       /\ sources[i].normalizedPath = normalizePath(result.arg)

\* C3: finish with a non-empty backlog throws 'backlog is not empty' and leaves
\* backlog, seenlog and the Program as they were; finish with an empty backlog
\* returns the Program.
C3_FinishChecksBacklog ==
  [][ result'.op = "finish"
      => IF Len(backlog) > 0
         THEN /\ result'.status = "throw"
              /\ result'.error = "backlog is not empty"
              /\ UNCHANGED <<backlog, seenlog, sources, diagnostics>>
         ELSE /\ result'.status = "ok"
              /\ result'.program = sources
              /\ UNCHANGED <<sources, diagnostics>> ]_vars

\* finish has thrown over a backlog of two paths
C3_Witness ==
  /\ result.op = "finish"
  /\ result.status = "throw"
  /\ Len(backlog) = 2
  /\ seenlog # {}

\* C4: in every reachable state seenlog holds every path of the backlog and the
\* normalizedPath of every Source of the Program.
C4_SeenlogCoversAll ==
  /\ \A i \in 1..Len(backlog) : backlog[i] \in seenlog
  /\ \A i \in 1..Len(sources) : sources[i].normalizedPath \in seenlog

\* C5: no two Sources of the Program have the same normalizedPath.
C5_UniqueNormalizedPath ==
  \A i, j \in 1..Len(sources) :
    i # j => sources[i].normalizedPath # sources[j].normalizedPath

\* two Sources, the later one's parse aborted, and a duplicate call was refused
C5_Witness ==
  /\ Len(sources) = 2
  /\ result.op = "parseFile"
  /\ result.status = "throw"
  /\ log # <<>>
  /\ Last(log).node = Null

\* C6: every path of the backlog is in seenlog and no path is at two positions of
\* the backlog.
C6_BacklogInSeenlogNoRepeat ==
  /\ \A i \in 1..Len(backlog) : backlog[i] \in seenlog
  /\ NoRepeat(backlog)

\* two paths wait in the backlog, enqueued by two files
C6_Witness ==
  /\ Len(backlog) = 2
  /\ Len(sources) = 2
  /\ Len(log) = 1

\* C7: nextFile is first-in-first-out: the paths returned so far, followed by the
\* paths still waiting, are the paths enqueued, in the order of enqueueing; a call
\* returns the head and removes only it; on an empty backlog it returns null and
\* changes nothing.
C7_NextFileFifo ==
  /\ [](enqueued = returned \o backlog)
  /\ [][ result'.op = "nextFile"
         => IF backlog = <<>>
            THEN /\ result'.path = NullPath
                 /\ UNCHANGED <<backlog, seenlog, sources, diagnostics, returned>>
            ELSE /\ result'.path = Head(backlog)
                 /\ backlog' = Tail(backlog)
                 /\ UNCHANGED <<seenlog, sources, diagnostics>> ]_vars

\* the first of two waiting paths has been returned, the second still waits
C7_Witness ==
  /\ result.op = "nextFile"
  /\ Len(enqueued) = 2
  /\ returned = <<enqueued[1]>>
  /\ backlog = <<enqueued[2]>>

\* C8: a top-level import statement that parses appends its resolved path to the
\* backlog and adds it to seenlog if seenlog did not hold it, and leaves the
\* backlog as it was if seenlog held it.
C8_ImportEnqueuesUnseen ==
  \A k \in 1..Len(log) :
    LET e == log[k]
    IN e.node.kind = "IMPORT"
       => /\ e.node.normalizedPath =
               resolvePath(normalizePath(e.node.path.value), Last(sources).normalizedPath)
          /\ IF e.node.normalizedPath \in e.seenlogBefore
             THEN /\ e.backlogAfter = e.backlogBefore
                  /\ e.seenlogAfter = e.seenlogBefore
             ELSE /\ e.backlogAfter = Append(e.backlogBefore, e.node.normalizedPath)
                  /\ e.seenlogAfter = e.seenlogBefore \cup {e.node.normalizedPath}

\* a file has imported itself, and a later import of the same file named a new path
C8_Witness ==
  /\ Len(log) = 2
  /\ log[1].node.kind = "IMPORT"
  /\ log[1].node.normalizedPath = Last(sources).normalizedPath
  /\ log[2].node.kind = "IMPORT"
  /\ log[2].backlogAfter # log[2].backlogBefore

\* what an export statement does to the work-list: it enqueues its path iff
\* Enqueues(e) holds, and without a path it changes nothing
ExportEffect(e, Enqueues(_)) ==
  /\ (e.backlogAfter # e.backlogBefore) <=> Enqueues(e)
  /\ Enqueues(e) => /\ e.backlogAfter = Append(e.backlogBefore, e.node.normalizedPath)
                    /\ e.seenlogAfter = e.seenlogBefore \cup {e.node.normalizedPath}
  /\ ~Enqueues(e) => e.seenlogAfter = e.seenlogBefore

HasUnseenPath(e) ==
  e.node.path # Null /\ e.node.normalizedPath \notin e.seenlogBefore

\* the first file of a Parser was the text  export { foo as bar } from "./other";
\* and nextFile has been called since
ExampleThenNextFile ==
  /\ Len(sources) = 1
  /\ sources[1].text = ExportFromForm(<<".", "other">>)
  /\ result.op = "nextFile"

\* the normalization of ./other relative to the first file
ExamplePath == resolvePath(normalizePath(<<".", "other">>), sources[1].normalizedPath)

C10_FailureKeepsSiblings ==
  /\ [](\A i \in 1..Len(sources) :
          LET src == sources[i]
              forms == FormsOf(src.text)
          IN /\ Len(src.statements) = Parsed(forms)
             /\ \A k \in 1..Len(src.statements) :
                  LET st == src.statements[k]
                  IN /\ st.kind = KindOf(forms[k])
                     /\ st.parent = src.normalizedPath
                     /\ OffsetOf(forms, k) <= st.range.start
                     /\ st.range.start < st.range.end
                     /\ st.range.end <= OffsetOf(forms, k) + Len(forms[k]))
  /\ [][ (/\ result'.op = "parseFile"
          /\ \A i \in 1..Len(sources) :
               sources[i].normalizedPath # normalizePath(result'.arg))
         => /\ result'.status = "ok"
            /\ Len(sources') = Len(sources) + 1
            /\ Last(sources').path = result'.arg
            /\ \A i \in 1..Len(sources) : sources'[i] = sources[i] ]_vars

\* a file of a statement that parsed and then one that did not
C10_Witness ==
  /\ result.op = "parseFile"
  /\ result.status = "ok"
  /\ Len(log) = 2
  /\ Last(log).node = Null
  /\ Len(Last(sources).statements) = 1
  /\ Len(FormsOf(Last(sources).text)) = 2

----------------------------------------------------------------------------
(* Properties of the one-file Parser *)

\* the text of the file, and the expression of its only statement
TheText == sources[1].text
TheStatements == sources[1].statements
TheExpression == sources[1].statements[1].expression

\* parseFile has been given text and made one expression statement of it
ParsedExpression(text) ==
  /\ Len(sources) = 1
  /\ TheText = text
  /\ Len(TheStatements) = 1
  /\ TheStatements[1].kind = "EXPRESSION"

IsIdentifier(node, name) == node.kind = "IDENTIFIER" /\ node.name = <<name>>

IsBinary(node, op) == node.kind = "BINARY" /\ node.operator = op

\* (op2 (op1 a b) c)
LeftGrouped(node, op1, op2) ==
  /\ IsBinary(node, op2)
  /\ IsBinary(node.left, op1)
  /\ IsIdentifier(node.left.left, "a")
  /\ IsIdentifier(node.left.right, "b")
  /\ IsIdentifier(node.right, "c")

\* (op1 a (op2 b c))
RightGrouped(node, op1, op2) ==
  /\ IsBinary(node, op1)
  /\ IsIdentifier(node.left, "a")
  /\ IsBinary(node.right, op2)
  /\ IsIdentifier(node.right.left, "b")
  /\ IsIdentifier(node.right.right, "c")

\* the last parseFile has returned before the end of its file: the statement of
\* its last top-level iteration is null
ReturnedEarly == log # <<>> /\ log[Len(log)].node = Null

C12_PrecedenceAndLeftAssociativity ==
  /\ Len(sources) = 1 /\ TheText = PairText("PLUS", "ASTERISK")
       => ParsedExpression(TheText) /\ RightGrouped(TheExpression, "PLUS", "ASTERISK")
  /\ Len(sources) = 1 /\ TheText = PairText("ASTERISK", "PLUS")
       => ParsedExpression(TheText) /\ LeftGrouped(TheExpression, "ASTERISK", "PLUS")
  /\ Len(sources) = 1 /\ TheText = PairText("MINUS", "MINUS")
       => ParsedExpression(TheText) /\ LeftGrouped(TheExpression, "MINUS", "MINUS")
  /\ \A op1, op2 \in BinaryTokens :
       Len(sources) = 1 /\ TheText = PairText(op1, op2) =>
         /\ determinePrecedence(op1) < determinePrecedence(op2)
              => ParsedExpression(TheText) /\ RightGrouped(TheExpression, op1, op2)
         /\ determinePrecedence(op1) > determinePrecedence(op2)
              => ParsedExpression(TheText) /\ LeftGrouped(TheExpression, op1, op2)
         /\ determinePrecedence(op1) = determinePrecedence(op2)
              /\ op1 \notin AssignmentTokens \cup { "ASTERISK_ASTERISK" }
              => ParsedExpression(TheText) /\ LeftGrouped(TheExpression, op1, op2)

\* a + b * c has been parsed with the '*' below the '+'
C12_Witness ==
  /\ ParsedExpression(PairText("PLUS", "ASTERISK"))
  /\ TheExpression.right.kind = "BINARY"

\* C13: the assignment operators and ** are right-associative: a = b = c is
\* (= a (= b c)) and a ** b ** c is (** a (** b c)), and so is every chain of two
\* operators of one level that isRightAssociative reports.
C13_RightAssociativity ==
  /\ Len(sources) = 1 /\ TheText = PairText("EQUALS", "EQUALS")
       => ParsedExpression(TheText) /\ RightGrouped(TheExpression, "EQUALS", "EQUALS")
  /\ Len(sources) = 1 /\ TheText = PairText("ASTERISK_ASTERISK", "ASTERISK_ASTERISK")
       => /\ ParsedExpression(TheText)
          /\ RightGrouped(TheExpression, "ASTERISK_ASTERISK", "ASTERISK_ASTERISK")
  /\ \A op1, op2 \in BinaryTokens :
       /\ Len(sources) = 1 /\ TheText = PairText(op1, op2)
       /\ determinePrecedence(op1) = determinePrecedence(op2)
       /\ isRightAssociative(op1) /\ isRightAssociative(op2)
       => ParsedExpression(TheText) /\ RightGrouped(TheExpression, op1, op2)

\* a = b = c has been parsed and its right operand is the second assignment
C13_Witness ==
  /\ ParsedExpression(PairText("EQUALS", "EQUALS"))
  /\ TheExpression.right.kind = "BINARY"

\* C14: a < b > c is not a call: the speculative type-argument attempt is given
\* up, the tokenizer is back just before '<', and the result is (> (< a b) c).
C14_LessThanGreaterThan ==
  Len(sources) = 1 /\ TheText = PairText("LESSTHAN", "GREATERTHAN") =>
    /\ ParsedExpression(TheText)
    /\ LeftGrouped(TheExpression, "LESSTHAN", "GREATERTHAN")
    /\ diagnostics = <<>>

C14_Witness ==
  /\ ParsedExpression(PairText("LESSTHAN", "GREATERTHAN"))
  /\ TheExpression.left.kind = "BINARY"

\* node is the TypeNode of a type of the texts
IsType(node, type) ==
  /\ node.kind = "TYPE"
  /\ node.nullable = type.nullable
  /\ IF type.array
     THEN /\ node.identifier.name = <<"Array">>
          /\ Len(node.parameters) = 1
          /\ node.parameters[1].kind = "TYPE"
          /\ node.parameters[1].identifier.name = <<"T">>
          /\ ~node.parameters[1].nullable
     ELSE /\ node.identifier.name = <<"T">>
          /\ node.parameters = <<>>

\* C15: a prefix followed by '<' Type (',' Type)* '>' '(' args ')' parses as one
\* CallExpression whose callee is the prefix, with the type arguments in order
\* and the arguments listed; f<T>(x) has one type argument and one argument.
C15_CallWithTypeArguments ==
  \A types \in TypeLists, args \in ArgumentLists :
    Len(sources) = 1 /\ TheText = CallText(types, args) =>
      /\ ParsedExpression(TheText)
      /\ TheExpression.kind = "CALL"
      /\ IsIdentifier(TheExpression.expression, "f")
      /\ Len(TheExpression.typeArguments) = Len(types)
      /\ \A i \in 1..Len(types) : IsType(TheExpression.typeArguments[i], types[i])
      /\ Len(TheExpression.arguments) = Len(args)
      /\ \A i \in 1..Len(args) : IsIdentifier(TheExpression.arguments[i], args[i])
      /\ TheExpression.range = [start |-> 0, end |-> Len(TheText)]

\* f<T>(x) has been parsed to a call with one type argument and one argument
C15_Witness ==
  /\ ParsedExpression(CallText(<<[array |-> FALSE, nullable |-> FALSE]>>, <<"x">>))
  /\ TheExpression.kind = "CALL"
  /\ Len(TheExpression.typeArguments) = 1
  /\ Len(TheExpression.arguments) = 1

\* node is the expression of an operand of new of the texts
IsNewOperand(node, operand) ==
  IF Len(operand) = 1
  THEN IsIdentifier(node, "Foo")
  ELSE /\ node.kind = "PROPERTYACCESS"
       /\ IsIdentifier(node.expression, "a")
       /\ IsIdentifier(node.property, "b")

\* the only statement is a NewExpression over operand with the arguments args
ParsedNew(operand, args) ==
  /\ ParsedExpression(TheText)
  /\ TheExpression.kind = "NEW"
  /\ IsNewOperand(TheExpression.expression, operand)
  /\ TheExpression.typeArguments = <<>>
  /\ Len(TheExpression.arguments) = Len(args)
  /\ \A i \in 1..Len(args) :
       /\ TheExpression.arguments[i].kind = "INTEGER"
       /\ TheExpression.arguments[i].value = <<args[i]>>

\* C16: new on an identifier or property-access operand, followed by optional
\* parenthesised arguments, yields a NewExpression over the operand that carries
\* the arguments and no type arguments; new Foo<T>(1, 2) yields a NewExpression
\* over Foo.
C16_NewExpression ==
  /\ \A operand \in NewOperands :
       Len(sources) = 1 /\ TheText = NewText(operand) => ParsedNew(operand, <<>>)
  /\ \A operand \in NewOperands, typed \in BOOLEAN, args \in IntegerLists :
       Len(sources) = 1 /\ TheText = NewCallText(operand, typed, args)
         => ParsedNew(operand, args)

\* the nodes a node holds, in the order of its fields
Present(nodes) == SelectSeq(nodes, LAMBDA n : n # Null)

Children(node) ==
  CASE node.kind \in { "EXPRESSION", "UNARYPREFIX", "UNARYPOSTFIX", "PARENTHESIZED" } ->
         <<node.expression>>
    [] node.kind = "BINARY" -> <<node.left, node.right>>
    [] node.kind = "PROPERTYACCESS" -> <<node.expression, node.property>>
    [] node.kind \in { "NEW", "CALL" } ->
         <<node.expression>> \o node.typeArguments \o node.arguments
    [] node.kind = "ARRAYLITERAL" -> Present(node.elementExpressions)
    [] node.kind = "ASSERTION" -> <<node.expression, node.toType>>
    [] node.kind = "ELEMENTACCESS" -> <<node.expression, node.elementExpression>>
    [] node.kind = "SELECT" -> <<node.condition, node.ifThen, node.ifElse>>
    [] node.kind = "TYPE" -> <<node.identifier>> \o node.parameters
    [] node.kind = "DECORATOR" -> <<node.expression>> \o node.arguments
    [] node.kind = "RETURN" -> Present(<<node.expression>>)
    [] node.kind \in { "BREAK", "CONTINUE" } -> Present(<<node.label>>)
    [] node.kind \in { "VARIABLEDECLARATION", "PARAMETER" } ->
         Present(<<node.identifier, node.type, node.initializer>>)
    [] node.kind = "VARIABLE" -> node.modifiers \o node.declarations
    [] node.kind = "TYPEPARAMETER" -> Present(<<node.identifier, node.extendsType>>)
    [] node.kind = "FUNCTION" ->
         node.decorators \o node.modifiers \o <<node.identifier>> \o
         node.typeParameters \o node.parameters \o Present(<<node.returnType>>) \o
         Present(node.statements)
    [] node.kind = "ENUMVALUE" -> Present(<<node.identifier, node.value>>)
    [] node.kind = "ENUM" -> node.modifiers \o <<node.identifier>> \o node.members
    [] node.kind = "FIELD" ->
         node.decorators \o node.modifiers \o
         Present(<<node.identifier, node.type, node.initializer>>)
    [] node.kind = "METHOD" ->
         node.decorators \o node.modifiers \o <<node.identifier>> \o
         node.typeParameters \o node.parameters \o Present(<<node.returnType>>) \o
         Present(node.statements)
    [] node.kind = "CLASS" ->
         node.decorators \o node.modifiers \o <<node.identifier>> \o
         node.typeParameters \o Present(<<node.extendsType>>) \o
         node.implementsTypes \o node.members
    [] node.kind = "BLOCK" -> node.statements
    [] node.kind = "DO" -> <<node.statement, node.condition>>
    [] node.kind = "FOR" ->
         <<node.initializer, node.condition, node.incrementor, node.statement>>
    [] node.kind = "IF" ->
         <<node.condition, node.statement>> \o Present(<<node.elseStatement>>)
    [] node.kind = "SWITCH" -> <<node.expression>> \o node.cases
    [] node.kind = "SWITCHCASE" -> Present(<<node.label>>) \o node.statements
    [] node.kind = "THROW" -> <<node.expression>>
    [] node.kind = "TRY" ->
         node.statements \o Present(<<node.catchVariable>>) \o
         Present(node.catchStatements) \o Present(node.finallyStatements)
    [] node.kind = "WHILE" -> <<node.condition, node.statement>>
    [] node.kind = "IMPORT" -> node.declarations \o <<node.path>>
    [] node.kind = "EXPORT" -> node.modifiers \o node.members \o Present(<<node.path>>)
    [] node.kind \in { "IMPORTDECLARATION", "EXPORTMEMBER", "EXPORTIMPORT" } ->
         Present(<<node.identifier, node.asIdentifier>>)
    [] OTHER -> <<>>

Covers(parent, child) == parent.start <= child.start /\ child.end <= parent.end

\* the Range of node covers the Range of each of its children, and so on below
RECURSIVE WellRanged(_)
WellRanged(node) ==
  \A i \in 1..Len(Children(node)) :
    /\ Covers(node.range, Children(node)[i].range)
    /\ WellRanged(Children(node)[i])

\* C17: the Range of every node the parser builds covers the Range of each of
\* its direct children: a ReturnStatement and its expression, a break or
\* continue statement and its label, and every other statement.
C17_RangeContainment ==
  \A k \in 1..Len(sources) :
    \A i \in 1..Len(sources[k].statements) : WellRanged(sources[k].statements[i])

\* node is the parameter name: i32
IsTypedParameter(node, name) ==
  /\ node.kind = "PARAMETER"
  /\ IsIdentifier(node.identifier, name)
  /\ node.type.kind = "TYPE"
  /\ node.type.identifier.name = <<"i32">>
  /\ node.initializer = Null
  /\ ~node.multiple

\* C18: function add(a: i32, b: i32): i32 { return a + b; } as a whole file
\* makes exactly one FunctionDeclaration with two Parameters and a body of one
\* ReturnStatement whose expression is (+ a b), and no diagnostic.
C18_AddFunction ==
  Len(sources) = 1 /\ TheText = AddFunctionText =>
    /\ Len(TheStatements) = 1
    /\ TheStatements[1].kind = "FUNCTION"
    /\ IsIdentifier(TheStatements[1].identifier, "add")
    /\ Len(TheStatements[1].parameters) = 2
    /\ IsTypedParameter(TheStatements[1].parameters[1], "a")
    /\ IsTypedParameter(TheStatements[1].parameters[2], "b")
    /\ Len(TheStatements[1].statements) = 1
    /\ TheStatements[1].statements[1].kind = "RETURN"
    /\ IsBinary(TheStatements[1].statements[1].expression, "PLUS")
    /\ IsIdentifier(TheStatements[1].statements[1].expression.left, "a")
    /\ IsIdentifier(TheStatements[1].statements[1].expression.right, "b")
    /\ diagnostics = <<>>

C18_Witness ==
  /\ Len(sources) = 1
  /\ TheText = AddFunctionText
  /\ Len(TheStatements) = 1
  /\ TheStatements[1].kind = "FUNCTION"

\* C19: an operand followed by '[' Expression ']' parses as an element access;
\* the expression statement a[i] yields one ElementAccess node.
C19_ElementAccess ==
  \A operand \in ElementOperands, index \in ElementIndexes :
    Len(sources) = 1 /\ TheText = ElementText(operand, index) =>
      /\ ParsedExpression(TheText)
      /\ TheExpression.kind = "ELEMENTACCESS"
      /\ TheExpression.expression.range = [start |-> 0, end |-> Len(operand)]
      /\ TheExpression.elementExpression.range =
           [start |-> Len(operand) + 1, end |-> Len(operand) + 2]

\* the number of commas of a text that are outside every parenthesis and bracket
\* opened after position from, counted from depth
RECURSIVE OuterCommas(_, _, _)
OuterCommas(text, from, depth) ==
  IF from > Len(text) THEN 0
  ELSE CASE text[from].t \in { "OPENPAREN", "OPENBRACKET" } ->
              OuterCommas(text, from + 1, depth + 1)
         [] text[from].t \in { "CLOSEPAREN", "CLOSEBRACKET" } ->
              OuterCommas(text, from + 1, depth - 1)
         [] text[from].t = "COMMA" /\ depth = 0 ->
              1 + OuterCommas(text, from + 1, depth)
         [] OTHER -> OuterCommas(text, from + 1, depth)

\* C20: every argument of a call is parsed above the comma level: the number of
\* arguments is the number of commas outside nested parentheses and brackets
\* plus one, also when an argument is a conditional c ? x : y followed by a
\* further argument.
C20_ArgumentCount ==
  \A forms \in ArgumentFormLists :
    Len(sources) = 1 /\ TheText = ArgumentsText(forms) =>
      /\ ParsedExpression(TheText)
      /\ TheExpression.kind = "CALL"
      /\ Len(TheExpression.arguments) = OuterCommas(Joined(forms, "COMMA"), 1, 0) + 1

----------------------------------------------------------------------------
(* Properties of the work-list against the Program *)

\* C30: nextFile never returns the normalizedPath of a Source that is already in
\* the Program, whatever the order of the host's parseFile and nextFile calls.
C30_NextFileNotInProgram ==
  (result.op = "nextFile" /\ result.path # NullPath)
    => \A i \in 1..Len(sources) : sources[i].normalizedPath # result.path

----------------------------------------------------------------------------
(* Properties of the one-file Parser: control statements *)

\* the diagnostics with a code
Emitted(code) == { i \in 1..Len(diagnostics) : diagnostics[i].code = code }

\* C21: in a for statement the condition and the incrementor are optional: each of
\* for (init; ; ) stmt, for (init; cond; ) stmt and for (init; ; incr) stmt makes a
\* ForStatement, not a null result.
C21_ForOptionalParts ==
  \A init \in { "let", "expression" }, cond, incr \in BOOLEAN :
    (Len(sources) = 1 /\ TheText = ForText(init, cond, incr) /\ ~(cond /\ incr))
      => /\ Len(TheStatements) = 1
         /\ TheStatements[1].kind = "FOR"

\* the return statements in nodes and below them that are in no function body
RECURSIVE ReturnsOutsideFunctions(_)
ReturnsOutsideFunctions(nodes) ==
  IF nodes = <<>> THEN 0
  ELSE (IF Head(nodes).kind = "RETURN" THEN 1 ELSE 0) +
       (IF Head(nodes).kind = "FUNCTION" THEN 0
        ELSE ReturnsOutsideFunctions(Children(Head(nodes)))) +
       ReturnsOutsideFunctions(Tail(nodes))

\* C22: every return statement that is in no function body, whatever blocks and
\* control statements of a top-level statement are around it, has made the parser
\* emit 'a return statement can only be used within a function body'; the
\* ReturnStatement is in the tree all the same.
C22_ReturnOutsideFunction ==
  Len(sources) = 1 =>
    ReturnsOutsideFunctions(TheStatements) <=
      Cardinality(Emitted("A_return_statement_can_only_be_used_within_a_function_body"))

----------------------------------------------------------------------------
(* Properties of the one-file Parser: types *)

\* the type of the one variable the file declares
TheType == TheStatements[1].declarations[1].type

IsArrayType(type) ==
  /\ type.kind = "TYPE"
  /\ type.identifier.kind = "IDENTIFIER"
  /\ type.identifier.name = <<"Array">>

\* C23: for each base form of a type (void, this, true, false, a string literal, a
\* name with or without type arguments) parseType consumes a '| null' that follows
\* directly and returns a nullable TypeNode; and once a [] level is nullable no
\* further [] is consumed.
C23_NullableSuffix ==
  /\ \A base \in TypeBases :
       (Len(sources) = 1 /\ TheText = DeclarationText(base, <<"nullable">>))
         => /\ Len(TheStatements) = 1
            /\ TheStatements[1].kind = "VARIABLE"
            /\ TheType.nullable
            /\ diagnostics = <<>>
  /\ \A base \in TypeBases :
       (/\ Len(sources) = 1
        /\ TheText = DeclarationText(base, <<"array", "nullable", "array">>)
        /\ Len(TheStatements) >= 1)
         => /\ IsArrayType(TheType)
            /\ TheType.nullable
            /\ ~IsArrayType(TheType.parameters[1])

\* C24: a parenthesized type ( Type ) is accepted by the outermost parseType call
\* only: inside parentheses and inside a type-argument list Name<...> a leading '('
\* is rejected with Identifier_expected and a null result.
C24_ParenthesizedOutermostOnly ==
  /\ (Len(sources) = 1 /\ TheText = ParenthesizedText("outermost"))
       => Len(TheStatements) = 1 /\ diagnostics = <<>>
  /\ \A place \in ParenthesizedPlaces \ { "outermost" } :
       (Len(sources) = 1 /\ TheText = ParenthesizedText(place))
         => /\ TheStatements = <<>>
            /\ Len(nulls) >= 1
            /\ nulls[1].routine = "parseType"
            /\ diagnostics = <<[code |-> "Identifier_expected", arg |-> "",
                                category |-> "ERROR"]>>

----------------------------------------------------------------------------
(* Properties of the one-file Parser: member access, speculative parsing *)

\* every PropertyAccess in nodes and below them has an identifier as property
RECURSIVE PropertiesAreIdentifiers(_)
PropertiesAreIdentifiers(nodes) ==
  \A i \in 1..Len(nodes) :
    /\ nodes[i].kind = "PROPERTYACCESS" => nodes[i].property.kind = "IDENTIFIER"
    /\ PropertiesAreIdentifiers(Children(nodes[i]))

IsPropertyAccess(node, object, name) ==
  /\ node.kind = "PROPERTYACCESS"
  /\ IsIdentifier(node.expression, object)
  /\ IsIdentifier(node.property, name)

\* C26: a PropertyAccess is built with an IdentifierExpression as its property
\* only.  The operand after '.' is parsed at precedence MEMBERACCESS + 1, so that
\* a.b.c and a.b + c group around a.b; an operand of any other kind, the call of
\* a.b(c) included, makes parseExpression emit Identifier_expected and return null.
C26_PropertyIsIdentifier ==
  /\ Len(sources) = 1 => PropertiesAreIdentifiers(TheStatements)
  /\ \A operand \in MemberOperands \ { <<Ident("b")>> }, tail \in MemberTails :
       (Len(sources) = 1 /\ TheText = MemberText(operand, tail))
         => /\ TheStatements = <<>>
            /\ diagnostics # <<>>
            /\ Last(diagnostics).code = "Identifier_expected"
            /\ \E i \in 1..Len(nulls) : nulls[i].routine = "parseExpression"
  /\ (Len(sources) = 1 /\ TheText = MemberText(<<Ident("b")>>, <<Tok("DOT"), Ident("c")>>))
       => /\ ParsedExpression(TheText)
          /\ TheExpression.kind = "PROPERTYACCESS"
          /\ IsPropertyAccess(TheExpression.expression, "a", "b")
          /\ IsIdentifier(TheExpression.property, "c")
  /\ (Len(sources) = 1 /\ TheText = MemberText(<<Ident("b")>>, <<Tok("PLUS"), Ident("c")>>))
       => /\ ParsedExpression(TheText)
          /\ IsBinary(TheExpression, "PLUS")
          /\ IsPropertyAccess(TheExpression.left, "a", "b")

\* a.b(c) has been given: no statement, Identifier_expected
C26_Witness ==
  /\ Len(sources) = 1
  /\ TheText = MemberText(<<Ident("b"), Tok("OPENPAREN"), Ident("c"), Tok("CLOSEPAREN")>>, <<>>)
  /\ TheStatements = <<>>
  /\ Last(diagnostics).code = "Identifier_expected"

\* the uses of the checkpoint by the speculative parse that returned null
FailedAttempts ==
  { i \in 1..Len(checkpoints) :
      checkpoints[i].routine = "tryParseTypeArgumentsBeforeArguments" }

\* C27: a failed speculative parse of type arguments is discarded entirely:
\* whenever tryParseTypeArgumentsBeforeArguments returns null, the tokenizer
\* (cursor, current token, peeked token, line-break flag) and the diagnostics are
\* as they were before the call, whatever tokens follow the '<'.
C27_FailedAttemptLeavesNothing ==
  \A i \in FailedAttempts : ~checkpoints[i].moved /\ checkpoints[i].emitted = 0

\* C28: the checkpoint is never clobbered while it is needed: between a tn.mark()
\* and the tn.reset() that restores it, in parseFile, parseStatement and
\* tryParseTypeArgumentsBeforeArguments, no other tn.mark() is executed.
C28_CheckpointNotClobbered ==
  \A i \in 1..Len(checkpoints) : ~checkpoints[i].clobbered

\* each of the three routines has reset to its mark, the speculative parse after
\* parseType has read a type
C28_Witness ==
  /\ Len(sources) = 1
  /\ TheText = AttemptText(<<Ident("b"), Tok("GREATERTHAN"), Ident("b")>>)
  /\ \A routine \in { "parseFile", "parseStatement", "tryParseTypeArgumentsBeforeArguments" } :
       \E i \in 1..Len(checkpoints) :
         checkpoints[i].routine = routine /\ checkpoints[i].reset

\* the statement an iteration of the top-level loop has met is a function or a
\* class declaration, going by the tokens behind the modifiers
DeclarationFollows(e) ==
  \/ e.token \in { "FUNCTION", "CLASS" }
  \/ e.token = "ABSTRACT" /\ e.following = "CLASS"

\* the statements the iterations of the top-level loop have parsed, in order
RECURSIVE ParsedOf(_)
ParsedOf(entries) ==
  IF entries = <<>> THEN <<>>
  ELSE IF Head(entries).node = Null THEN ParsedOf(Tail(entries))
  ELSE <<Head(entries).node>> \o ParsedOf(Tail(entries))

\* C25: in each iteration of the top-level loop the collected decorators are
\* accounted for once: before a function or class declaration they are handed to
\* the declaration and no diagnostic 1206 is emitted; before anything else one
\* diagnostic 1206 is emitted per collected decorator; and every statement that
\* parsed has been appended to the source
C25_DecoratorsAccountedOnce ==
  (result.op = "parseFile" /\ result.status = "ok") =>
    /\ \A k \in 1..Len(log) :
         IF DeclarationFollows(log[k])
         THEN /\ log[k].invalid = 0
              /\ log[k].node # Null =>
                   /\ log[k].node.kind \in { "FUNCTION", "CLASS" }
                   /\ log[k].node.decorators = log[k].collected
         ELSE /\ log[k].invalid = Len(log[k].collected)
              /\ log[k].node # Null =>
                   (log[k].node.kind \in { "FUNCTION", "CLASS" } =>
                      log[k].node.decorators = <<>>)
    /\ Len(sources[Len(sources)].statements) = Len(ParsedOf(log))
    /\ \A i \in 1..Len(ParsedOf(log)) :
         sources[Len(sources)].statements[i] =
           [ParsedOf(log)[i] EXCEPT !.parent = sources[Len(sources)].normalizedPath]

\* two decorators in front of a statement that parsed and is no declaration, and
\* in the same file a decorator in front of a function that took it
C25_Witness ==
  /\ result.op = "parseFile" /\ result.status = "ok"
  /\ \E k \in 1..Len(log) :
       /\ ~DeclarationFollows(log[k]) /\ Len(log[k].collected) = 2
       /\ log[k].node # Null /\ log[k].invalid = 2
  /\ \E k \in 1..Len(log) :
       /\ log[k].token = "FUNCTION" /\ Len(log[k].collected) = 1
       /\ log[k].node # Null /\ log[k].node.decorators = log[k].collected

\* C29: parseFile comes to an end on every text, and no loop of the parser goes
\* round without progress: every iteration of the top-level loop and of every
\* nested statement, member, case, argument, operator, declaration, parameter,
\* decorator, name and bracket loop has consumed a token, or has ended with null
\* in a parseFile that has returned for want of a statement.  An iteration of a
\* type loop has consumed a token or has ended with null, and the element loop
\* of an array literal may besides end on an omitted element in front of ']'
C29_EveryIterationProgresses ==
  (result.op = "parseFile" /\ result.status = "ok") =>
    \A i \in 1..Len(rounds) :
      \/ rounds[i].consumed
      \/ rounds[i].null /\ ReturnedEarly
      \/ rounds[i].null /\ rounds[i].kind = "type"
      \/ rounds[i].kind = "element" /\ rounds[i].last

\* the text ends inside an unclosed block: the statement loop of the block has
\* gone round with a statement, and then once more at the end of the text,
\* where it has consumed nothing and ended with null
C29_Witness ==
  /\ result.op = "parseFile" /\ result.status = "ok"
  /\ \E i, j \in 1..Len(rounds) :
       /\ i < j
       /\ rounds[i].routine = "parseBlockStatement" /\ rounds[i].consumed /\ ~rounds[i].null
       /\ rounds[j].routine = "parseBlockStatement" /\ ~rounds[j].consumed /\ rounds[j].null
  /\ \E i \in 1..Len(rounds) : rounds[i].kind = "topLevel" /\ rounds[i].null

====
